---- MODULE Spec2Model ----
(***************************************************************************)
(* Model of the continent-resolution and classification engine of the      *)
(* Conference-Data-Plots repository:                                       *)
(*   src/src/utils/continent_mapper.py      ContinentMapper                *)
(*   src/src/processors/big_tech_analyzer.py BigTechAnalyzer               *)
(*   src/src/config/constants.py            the tables both use            *)
(*                                                                         *)
(* Python values are tagged records.  A str is the sequence of its         *)
(* characters, so that strip, upper, isalpha, len and replace are computed *)
(* and not assumed.  An exception leaving a function is the value Raised.  *)
(***************************************************************************)
EXTENDS Integers, Sequences, FiniteSets, TLC

VARIABLES
    value,      \* ContinentMapper: the argument of the call under way
    alpha2,     \* ContinentMapper: what country_to_alpha2(value) returned
    continent,  \* ContinentMapper: what country_to_continent(value) returned
    grouped,    \* ContinentMapper: what group_continent(value) returned
    authors,    \* get_predominant_continent: the author list of the paper
    predominant, \* get_predominant_continent: the tuple a run returned
    papers,     \* BigTechAnalyzer: the paper list of one conference year
    stats,      \* BigTechAnalyzer: the BigTechStats _analyze_year returned
    name_list,  \* classify_paper: the list of institution names it is given
    classified, \* classify_paper: the label it returned
    extended_dir,   \* CrawlerData/ExtendedCrawlerData: its *_extended_data.json files
    processed_dir,  \* ProcessedData: its *_data.json files
    all_stats,      \* DataReducer: what process_all_conferences returned
    results,        \* BigTechAnalyzer: what analyze_all_conferences returned
    continent_csv,  \* BigTechAnalyzer: the rows of generate_continent_csv
    committee_dir,  \* CommitteeData: its *_committee.json files
    citations_dir,  \* CitationsCrawlerData: the citation files of each conference
    csv_results,    \* CSVGenerator: what generate_all_csvs returned
    csv_files,      \* ProcessedData: the three unified CSV files
    pc,             \* main: the step the run is at
    exit_code,      \* main: the exit code of the process
    outputs_writable, \* whether the files of outputs/csv can be opened for writing
    logged,           \* main: the steps whose failure was logged
    plot,             \* main: the number of plot scripts handled
    generated_count,  \* main: generated_count
    failed_count,     \* main: failed_count
    big_tech_csv,     \* the file outputs/csv/big_tech_analysis.csv
    loaded            \* big_tech_analyzer.main: what load_csv(output_path) returned

vars == <<value, alpha2, continent, grouped, authors, predominant, papers, stats,
          name_list, classified,
          extended_dir, processed_dir, all_stats, results, continent_csv,
          committee_dir, citations_dir, csv_results, csv_files,
          pc, exit_code, outputs_writable, logged, plot,
          generated_count, failed_count, big_tech_csv, loaded>>
mapperVars == <<value, alpha2, continent, grouped>>
predominantVars == <<authors, predominant>>
analyzerVars == <<papers, stats>>
engineVars == <<mapperVars, predominantVars, analyzerVars>>
classifierVars == <<name_list, classified>>
batchVars == <<extended_dir, processed_dir, all_stats, results, continent_csv>>
csvVars == <<committee_dir, citations_dir, csv_results, csv_files>>
runVars == <<pc, exit_code, outputs_writable, logged, plot,
             generated_count, failed_count>>
reportVars == <<big_tech_csv, loaded>>
pipelineVars == <<classifierVars, batchVars, csvVars, runVars, reportVars>>

(***************************************************************************)
(* Bounds of the model.                                                    *)
(***************************************************************************)
MaxTokenLen == 2      \* every string over TokenChars up to this length is a token
MaxAuthors == 2       \* authors of one paper
MaxInstitutions == 3  \* institution records of one paper, over all its authors
MaxPapers == 3        \* papers of one conference year
MaxNames == 2         \* names a caller adds to a list given to classify_paper
MaxYears == 2         \* years of one conference file

(***************************************************************************)
(* Python values.                                                          *)
(***************************************************************************)
None == [kind |-> "None"]
Raised == [kind |-> "raise"]        \* an exception propagating out of a call
NotCalled == [kind |-> "notcalled"] \* no call has returned yet
Missing == [kind |-> "missing"]     \* a key that a dict does not have
NotDict == [kind |-> "int"]         \* any value that is neither dict, list nor str
Str(s) == [kind |-> "str", chars |-> s]
List(s) == [kind |-> "list", items |-> s]

\* the state of a component that a specification leaves alone
MapperIdle ==
    /\ value = None
    /\ alpha2 = NotCalled
    /\ continent = NotCalled
    /\ grouped = NotCalled

PredominantIdle ==
    /\ authors = <<>>
    /\ predominant = NotCalled

AnalyzerIdle ==
    /\ papers = <<>>
    /\ stats = NotCalled

EngineIdle == MapperIdle /\ PredominantIdle /\ AnalyzerIdle

ClassifierIdle ==
    /\ name_list = <<>>
    /\ classified = NotCalled

BatchIdle ==
    /\ extended_dir = Missing
    /\ processed_dir = Missing
    /\ all_stats = NotCalled
    /\ results = NotCalled
    /\ continent_csv = NotCalled

NoCsvFiles == [papers |-> Missing, committee |-> Missing, citations |-> Missing]

CsvIdle ==
    /\ committee_dir = Missing
    /\ citations_dir = Missing
    /\ csv_results = NotCalled
    /\ csv_files = NoCsvFiles

RunIdle ==
    /\ pc = "idle"
    /\ exit_code = NotCalled
    /\ outputs_writable = TRUE
    /\ logged = {}
    /\ plot = 0
    /\ generated_count = 0
    /\ failed_count = 0

ReportIdle ==
    /\ big_tech_csv = Missing
    /\ loaded = NotCalled

PipelineIdle == ClassifierIdle /\ BatchIdle /\ CsvIdle /\ RunIdle /\ ReportIdle

IsStr(v) == v.kind = "str"
\* Python truthiness of the values above: None and "" are falsy.
Truthy(v) == ~(v = None \/ v = Missing \/ v = Str(<<>>))

Lower == <<"a","b","c","d","e","f","g","h","i","j","k","l","m",
           "n","o","p","q","r","s","t","u","v","w","x","y","z">>
Upper == <<"A","B","C","D","E","F","G","H","I","J","K","L","M",
           "N","O","P","Q","R","S","T","U","V","W","X","Y","Z">>
Digits == {"0","1","2","3","4","5","6","7","8","9"}
Whitespace == {" "}
IsLowerChar(c) == \E i \in 1..26 : Lower[i] = c
IsUpperChar(c) == \E i \in 1..26 : Upper[i] = c
IsAlphaChar(c) == IsLowerChar(c) \/ IsUpperChar(c)
UpperChar(c) == IF IsLowerChar(c) THEN Upper[CHOOSE i \in 1..26 : Lower[i] = c] ELSE c
LowerChar(c) == IF IsUpperChar(c) THEN Lower[CHOOSE i \in 1..26 : Upper[i] = c] ELSE c

\* str.upper(), str.lower(), str.isalpha(), str.replace(c, ""), str.strip()
StrUpper(s) == [i \in 1..Len(s) |-> UpperChar(s[i])]
StrLower(s) == [i \in 1..Len(s) |-> LowerChar(s[i])]
StrIsAlpha(s) == Len(s) > 0 /\ \A i \in 1..Len(s) : IsAlphaChar(s[i])
StrRemove(s, c) == SelectSeq(s, LAMBDA x : x # c)
RECURSIVE LStrip(_)
LStrip(s) == IF s # <<>> /\ Head(s) \in Whitespace THEN LStrip(Tail(s)) ELSE s
RECURSIVE RStrip(_)
RStrip(s) ==
    IF s # <<>> /\ s[Len(s)] \in Whitespace THEN RStrip(SubSeq(s, 1, Len(s) - 1)) ELSE s
StrStrip(s) == RStrip(LStrip(s))

(***************************************************************************)
(* constants.py                                                            *)
(***************************************************************************)
\* COUNTRY_CODE_FIXES, as a set of <<key, value>> pairs
COUNTRY_CODE_FIXES ==
    { <<<<"U","K">>, <<"G","B">>>>,
      <<<<"U",".","K",".">>, <<"G","B">>>>,
      <<<<"U",".","S",".">>, <<"U","S">>>>,
      <<<<"U","S","A">>, <<"U","S">>>>,
      <<<<"U","A","E">>, <<"A","E">>>>,
      <<<<"K","o","r","e","a">>, <<"K","R">>>>,
      <<<<"S","o","u","t","h"," ","K","o","r","e","a">>, <<"K","R">>>>,
      <<<<"N","o","r","t","h"," ","K","o","r","e","a">>, <<"K","P">>>>,
      <<<<"R","u","s","s","i","a">>, <<"R","U">>>>,
      <<<<"V","i","e","t"," ","N","a","m">>, <<"V","N">>>>,
      <<<<"V","i","e","t","n","a","m">>, <<"V","N">>>> }

\* CONTINENT_GROUPS
CONTINENT_GROUPS ==
    { <<<<"N","A">>, <<"N","A">>>>,
      <<<<"E","U">>, <<"E","U">>>>,
      <<<<"A","S">>, <<"A","S">>>>,
      <<<<"S","A">>, <<"O","t","h","e","r","s">>>>,
      <<<<"O","C">>, <<"O","t","h","e","r","s">>>>,
      <<<<"A","F">>, <<"O","t","h","e","r","s">>>> }

\* BIG_TECH_COMPANIES, but for 'telefo-acute nica', whose accented letter no
\* institution name of this model holds
BIG_TECH_COMPANIES ==
    { <<"i","b","m">>,
      <<"i","b","m"," ","r","e","s","e","a","r","c","h">>,
      <<"i","b","m"," ","l","i","n","u","x"," ","t","e","c","h","n","o","l","o","g","y"," ","c","e","n","t","e","r">>,
      <<"m","i","c","r","o","s","o","f","t">>,
      <<"m","i","c","r","o","s","o","f","t"," ","a","z","u","r","e">>,
      <<"a","z","u","r","e">>,
      <<"m","i","c","r","o","s","o","f","t"," ","r","e","s","e","a","r","c","h">>,
      <<"g","o","o","g","l","e">>,
      <<"g","o","o","g","l","e"," ","c","l","o","u","d">>,
      <<"a","l","p","h","a","b","e","t">>,
      <<"a","m","a","z","o","n">>,
      <<"a","m","a","z","o","n"," ","w","e","b"," ","s","e","r","v","i","c","e","s">>,
      <<"a","w","s">>,
      <<"f","a","c","e","b","o","o","k">>,
      <<"m","e","t","a">>,
      <<"m","e","t","a"," ","p","l","a","t","f","o","r","m","s">>,
      <<"a","p","p","l","e">>,
      <<"i","n","t","e","l">>,
      <<"o","r","a","c","l","e">>,
      <<"o","r","a","c","l","e"," ","l","a","b","s">>,
      <<"c","i","s","c","o">>,
      <<"c","i","s","c","o"," ","s","y","s","t","e","m","s">>,
      <<"h","p">>,
      <<"h","e","w","l","e","t","t"," ","p","a","c","k","a","r","d">>,
      <<"h","p"," ","l","a","b","s">>,
      <<"h","p","e">>,
      <<"h","e","w","l","e","t","t"," ","p","a","c","k","a","r","d"," ","e","n","t","e","r","p","r","i","s","e">>,
      <<"n","v","i","d","i","a">>,
      <<"v","m","w","a","r","e">>,
      <<"n","e","t","f","l","i","x">>,
      <<"u","b","e","r">>,
      <<"t","w","i","t","t","e","r">>,
      <<"y","a","h","o","o">>,
      <<"s","n","a","p">>,
      <<"s","a","l","e","s","f","o","r","c","e">>,
      <<"a","m","d">>,
      <<"a","d","v","a","n","c","e","d"," ","m","i","c","r","o"," ","d","e","v","i","c","e","s">>,
      <<"q","u","a","l","c","o","m","m">>,
      <<"b","r","o","a","d","c","o","m">>,
      <<"h","u","a","w","e","i">>,
      <<"a","l","i","b","a","b","a">>,
      <<"a","l","i","b","a","b","a"," ","c","l","o","u","d">>,
      <<"b","y","t","e","d","a","n","c","e">>,
      <<"t","e","n","c","e","n","t">>,
      <<"b","a","i","d","u">>,
      <<"s","a","m","s","u","n","g">>,
      <<"x","i","a","o","m","i">>,
      <<"t","i","k","t","o","k">>,
      <<"a","r","m">>,
      <<"a","r","m"," ","l","t","d">>,
      <<"a","r","m"," ","l","i","m","i","t","e","d">>,
      <<"a","r","m"," ","h","o","l","d","i","n","g","s">>,
      <<"e","r","i","c","s","s","o","n">>,
      <<"n","o","k","i","a">>,
      <<"s","i","e","m","e","n","s">>,
      <<"o","r","a","n","g","e">>,
      <<"a","t","o","s">>,
      <<"d","e","u","t","s","c","h","e"," ","t","e","l","e","k","o","m">>,
      <<"b","o","s","c","h">>,
      <<"a","i","r","b","u","s">>,
      <<"s","a","p">>,
      <<"t","e","l","e","f","o","n","i","c","a">>,
      <<"v","o","d","a","f","o","n","e">>,
      <<"t","h","a","l","e","s">>,
      <<"p","h","i","l","i","p","s">> }

\* d.get(key) / key in d, for a table given as a set of pairs
InTable(t, k) == \E p \in t : p[1] = k
Lookup(t, k) == (CHOOSE p \in t : p[1] = k)[2]

(***************************************************************************)
(* pycountry_convert, the library the mapper calls: the part of its two    *)
(* tables that the tokens of this model can hit.  Both functions raise     *)
(* KeyError on a key they do not hold, and both compare case-sensitively.  *)
(***************************************************************************)
PC_NAME_TO_ALPHA2 ==
    { <<<<"F","r","a","n","c","e">>, <<"F","R">>>>,
      <<<<"C","h","i","n","a">>, <<"C","N">>>>,
      <<<<"B","r","a","z","i","l">>, <<"B","R">>>>,
      <<<<"A","u","s","t","r","a","l","i","a">>, <<"A","U">>>>,
      <<<<"U","n","i","t","e","d"," ","S","t","a","t","e","s">>, <<"U","S">>>> }

PC_ALPHA2_TO_CONTINENT ==
    { <<<<"U","S">>, <<"N","A">>>>, <<<<"C","A">>, <<"N","A">>>>,
      <<<<"F","R">>, <<"E","U">>>>, <<<<"G","B">>, <<"E","U">>>>,
      <<<<"R","U">>, <<"E","U">>>>, <<<<"C","H">>, <<"E","U">>>>,
      <<<<"C","N">>, <<"A","S">>>>, <<<<"K","R">>, <<"A","S">>>>,
      <<<<"K","P">>, <<"A","S">>>>, <<<<"V","N">>, <<"A","S">>>>,
      <<<<"A","E">>, <<"A","S">>>>,
      <<<<"B","R">>, <<"S","A">>>>,
      <<<<"A","U">>, <<"O","C">>>>,
      <<<<"Z","A">>, <<"A","F">>>> }

\* pc.country_name_to_country_alpha2(name)
pc_country_name_to_country_alpha2(name) ==
    IF IsStr(name) /\ InTable(PC_NAME_TO_ALPHA2, name.chars)
    THEN Str(Lookup(PC_NAME_TO_ALPHA2, name.chars))
    ELSE Raised

\* pc.country_alpha2_to_continent_code(alpha2)
pc_country_alpha2_to_continent_code(code) ==
    IF IsStr(code) /\ InTable(PC_ALPHA2_TO_CONTINENT, code.chars)
    THEN Str(Lookup(PC_ALPHA2_TO_CONTINENT, code.chars))
    ELSE Raised

\* try: return f(x)  except Exception: return handler
TryExcept(result, handler) == IF result = Raised THEN handler ELSE result

(***************************************************************************)
(* ContinentMapper                                                         *)
(***************************************************************************)
\* normalize_alpha2 without the .upper() of its two-letter branch
normalize_alpha2_no_upper(code) ==
    IF ~IsStr(code) THEN None
    ELSE LET stripped == StrStrip(code.chars) IN
         IF InTable(COUNTRY_CODE_FIXES, stripped)
         THEN Str(Lookup(COUNTRY_CODE_FIXES, stripped))
         ELSE IF Len(stripped) = 2 /\ StrIsAlpha(stripped)
              THEN Str(stripped)
              ELSE None

\* normalize_alpha2 testing the two-letter form before the fixes table
normalize_alpha2_code_first(code) ==
    IF ~IsStr(code) THEN None
    ELSE LET stripped == StrStrip(code.chars) IN
         IF Len(stripped) = 2 /\ StrIsAlpha(stripped)
         THEN Str(StrUpper(stripped))
         ELSE IF InTable(COUNTRY_CODE_FIXES, stripped)
              THEN Str(Lookup(COUNTRY_CODE_FIXES, stripped))
              ELSE None

\* ContinentMapper.normalize_alpha2
normalize_alpha2(code) ==
    IF ~IsStr(code) THEN None
    ELSE LET stripped == StrStrip(code.chars) IN
         IF InTable(COUNTRY_CODE_FIXES, stripped)
         THEN Str(Lookup(COUNTRY_CODE_FIXES, stripped))
         ELSE IF Len(stripped) = 2 /\ StrIsAlpha(stripped)
              THEN Str(StrUpper(stripped))
              ELSE None

\* ContinentMapper.country_name_to_alpha2
country_name_to_alpha2(name) ==
    IF ~IsStr(name) THEN None
    ELSE LET stripped == StrStrip(name.chars)
             name_cleaned == StrRemove(StrRemove(stripped, "."), ",")
         IN IF InTable(COUNTRY_CODE_FIXES, stripped)
            THEN Str(Lookup(COUNTRY_CODE_FIXES, stripped))
            ELSE TryExcept(pc_country_name_to_country_alpha2(Str(stripped)),
                           TryExcept(pc_country_name_to_country_alpha2(Str(name_cleaned)),
                                     None))

\* ContinentMapper.country_to_alpha2
country_to_alpha2(v) ==
    LET code == normalize_alpha2(v) IN
    IF code = Raised THEN Raised
    ELSE IF Truthy(code) THEN code
    ELSE country_name_to_alpha2(v)

\* alpha2_to_continent without its try/except
alpha2_to_continent_no_except(a) ==
    IF ~Truthy(a) \/ ~IsStr(a) THEN None
    ELSE pc_country_alpha2_to_continent_code(a)

\* ContinentMapper.alpha2_to_continent
alpha2_to_continent(a) ==
    IF ~Truthy(a) \/ ~IsStr(a) THEN None
    ELSE TryExcept(pc_country_alpha2_to_continent_code(a), None)

\* ContinentMapper.country_to_continent
country_to_continent(country) ==
    LET a == country_to_alpha2(country) IN
    IF a = Raised THEN Raised ELSE alpha2_to_continent(a)

\* group_continent without its test for a missing code
group_continent_no_unknown(continent_code) ==
    IF IsStr(continent_code) /\ InTable(CONTINENT_GROUPS, continent_code.chars)
    THEN Str(Lookup(CONTINENT_GROUPS, continent_code.chars))
    ELSE Str(<<"O","t","h","e","r","s">>)

\* ContinentMapper.group_continent
group_continent(continent_code) ==
    IF ~Truthy(continent_code) THEN Str(<<"U","n","k","n","o","w","n">>)
    ELSE IF IsStr(continent_code) /\ InTable(CONTINENT_GROUPS, continent_code.chars)
         THEN Str(Lookup(CONTINENT_GROUPS, continent_code.chars))
         ELSE Str(<<"O","t","h","e","r","s">>)

(***************************************************************************)
(* ContinentMapper.get_predominant_continent                               *)
(*                                                                         *)
(* An author is NotDict or a dict whose "Institutions" is a list (a        *)
(* missing key, None and [] are all the empty list after `or []`).  An     *)
(* institution is NotDict or a dict; a dict without the "Country" key has  *)
(* Country = Missing.                                                      *)
(***************************************************************************)
Author(institutions) == [kind |-> "dict", Institutions |-> institutions]
Institution(name, country) ==
    [kind |-> "dict", InstitutionName |-> name, Country |-> country]

Unknown == Str(<<"U","n","k","n","o","w","n">>)

\* An insertion-ordered dict is the sequence of its <<key, value>> items.
DictHas(d, k) == \E i \in 1..Len(d) : d[i][1] = k
DictGet(d, k, default) ==
    IF DictHas(d, k) THEN d[CHOOSE i \in 1..Len(d) : d[i][1] = k][2] ELSE default
DictSet(d, k, v) ==
    IF DictHas(d, k)
    THEN [i \in 1..Len(d) |-> IF d[i][1] = k THEN <<k, v>> ELSE d[i]]
    ELSE Append(d, <<k, v>>)
DictKeys(d) == [i \in 1..Len(d) |-> d[i][1]]
DictValues(d) == { d[i][2] : i \in 1..Len(d) }

SetMax(S) == CHOOSE m \in S : \A x \in S : x <= m

\* the orders in which a for loop can iterate over the set S
IterationOrders(S) ==
    { o \in [1..Cardinality(S) -> S] : \A i, j \in 1..Cardinality(S) : i # j => o[i] # o[j] }

\* the set unique_countries that the inner loop builds for one author
unique_countries(institutions) ==
    { institutions[i].Country :
        i \in { j \in 1..Len(institutions) :
                  /\ institutions[j].kind = "dict"
                  /\ institutions[j].Country # Missing } }

\* `for country in unique_countries`: a set of str iterates in the order of
\* the hashes, which are seeded per process, so any order can come out.
countries_without_dedup(institutions) ==
    LET with == SelectSeq(institutions,
                          LAMBDA inst : inst.kind = "dict" /\ inst.Country # Missing)
    IN { [i \in 1..Len(with) |-> with[i].Country] }

country_iterations(institutions) == IterationOrders(unique_countries(institutions))

\* the body of `for country in unique_countries`: the bucket the token votes
\* for, and what it adds to unknown_country
country_vote_uncounted(country) ==
    IF ~Truthy(country) \/ ~IsStr(country) THEN [bucket |-> Unknown, unknown |-> 1]
    ELSE IF Len(StrStrip(country.chars)) # 2 THEN [bucket |-> Unknown, unknown |-> 1]
    ELSE LET code == pc_country_alpha2_to_continent_code(country) IN
         IF code = Raised THEN [bucket |-> Unknown, unknown |-> 0]
         ELSE [bucket |-> code, unknown |-> 0]

\* the body of `for country in unique_countries` voting for what
\* country_to_continent resolves
country_vote_resolved(country) ==
    LET code == country_to_continent(country) IN
    IF ~Truthy(code) \/ code = Raised THEN [bucket |-> Unknown, unknown |-> 1]
    ELSE [bucket |-> code, unknown |-> 0]

country_vote(country) ==
    IF ~Truthy(country) \/ ~IsStr(country) THEN [bucket |-> Unknown, unknown |-> 1]
    ELSE IF Len(StrStrip(country.chars)) # 2 THEN [bucket |-> Unknown, unknown |-> 1]
    ELSE LET code == pc_country_alpha2_to_continent_code(country) IN
         IF code = Raised THEN [bucket |-> Unknown, unknown |-> 1]
         ELSE [bucket |-> code, unknown |-> 0]

\* the locals of get_predominant_continent before the first author
NoVotes == [continent_count |-> <<>>, no_inst_data |-> 0, unknown_country |-> 0]

\* the votes of one author, cast in the order `order`
RECURSIVE cast_votes(_, _)
cast_votes(acc, order) ==
    IF order = <<>> THEN acc
    ELSE LET vote == country_vote(Head(order))
             count == DictGet(acc.continent_count, vote.bucket, 0)
         IN cast_votes([acc EXCEPT
                          !.continent_count = DictSet(@, vote.bucket, count + 1),
                          !.unknown_country = @ + vote.unknown],
                       Tail(order))

\* one pass of `for author in authors`, for every iteration order of the set
process_author_uncounted(acc, author) ==
    IF author.kind # "dict" THEN {acc}
    ELSE IF author.Institutions = <<>> THEN {acc}
    ELSE { cast_votes(acc, order) : order \in country_iterations(author.Institutions) }

process_author(acc, author) ==
    IF author.kind # "dict" THEN {acc}
    ELSE IF author.Institutions = <<>>
         THEN {[acc EXCEPT !.no_inst_data = @ + 1]}
    ELSE { cast_votes(acc, order) : order \in country_iterations(author.Institutions) }

\* the locals after the first n authors
RECURSIVE after_authors(_, _)
after_authors(as, n) ==
    IF n = 0 THEN {NoVotes}
    ELSE UNION { process_author(acc, as[n]) : acc \in after_authors(as, n - 1) }

\* lines 221-229: the keys of continent_count that hold the maximum
all_continents(continent_count) == DictKeys(continent_count)

\* lines 221-229 with the bucket "Unknown" kept out of the returned list
predominant_continents_without_unknown(continent_count) ==
    IF continent_count = <<>> THEN <<>>
    ELSE LET max_count == SetMax(DictValues(continent_count)) IN
         DictKeys(SelectSeq(continent_count,
                            LAMBDA item : item[2] = max_count /\ item[1] # Unknown))

predominant_continents(continent_count) ==
    IF continent_count = <<>> THEN <<>>
    ELSE LET max_count == SetMax(DictValues(continent_count)) IN
         DictKeys(SelectSeq(continent_count, LAMBDA item : item[2] = max_count))

\* what a call returns, with the local continent_count it returned from
Returned(acc) ==
    [continents |-> predominant_continents(acc.continent_count),
     no_inst |-> acc.no_inst_data,
     unknown |-> acc.unknown_country,
     continent_count |-> acc.continent_count]

\* every tuple get_predominant_continent(as) can return
get_predominant_continent(as) ==
    IF as = <<>> THEN {Returned(NoVotes)}
    ELSE { Returned(acc) : acc \in after_authors(as, Len(as)) }

(***************************************************************************)
(* The author lists get_predominant_continent is called with.  The crawler *)
(* writes a paper's "Authors and Institutions" one author and one          *)
(* institution record at a time; the pipeline reads the finished list.     *)
(***************************************************************************)
PaperCountries ==
    { None, Str(<<"U","S","A">>), Str(<<"u","s">>), Str(<<"U","S">>), Str(<<"F","R">>),
      Str(<<"U","K">>) }

PaperInstitutions == { Institution(Missing, c) : c \in PaperCountries \cup {Missing} }

Records(author) == IF author.kind = "dict" THEN Len(author.Institutions) ELSE 0
RECURSIVE TotalRecords(_)
TotalRecords(as) == IF as = <<>> THEN 0 ELSE Records(Head(as)) + TotalRecords(Tail(as))

\* the crawler appends an author: a dict with no institution yet, or a
\* malformed entry
CrawlAuthor ==
    /\ predominant = NotCalled
    /\ Len(authors) < MaxAuthors
    /\ \E a \in {Author(<<>>), NotDict} : authors' = Append(authors, a)
    /\ UNCHANGED <<predominant, mapperVars, analyzerVars, pipelineVars>>

\* the crawler appends an institution record to the last author
CrawlInstitution ==
    /\ predominant = NotCalled
    /\ authors # <<>>
    /\ authors[Len(authors)].kind = "dict"
    /\ TotalRecords(authors) < MaxInstitutions
    /\ \E inst \in PaperInstitutions :
           authors' = [authors EXCEPT ![Len(authors)].Institutions = Append(@, inst)]
    /\ UNCHANGED <<predominant, mapperVars, analyzerVars, pipelineVars>>

\* One run of the pipeline calls get_predominant_continent on the paper's
\* author list; a later run calls it again on the same list.
GetPredominantContinent ==
    /\ \E result \in get_predominant_continent(authors) : predominant' = result
    /\ UNCHANGED <<authors, mapperVars, analyzerVars, pipelineVars>>

InitPredominant ==
    /\ authors = <<>>
    /\ predominant = NotCalled
    /\ MapperIdle
    /\ AnalyzerIdle
    /\ PipelineIdle

NextPredominant == CrawlAuthor \/ CrawlInstitution \/ GetPredominantContinent

SpecPredominant == InitPredominant /\ [][NextPredominant]_vars

(***************************************************************************)
(* BigTechAnalyzer                                                         *)
(***************************************************************************)
\* \w of the re module, on the characters of this model
IsWordChar(c) == IsAlphaChar(c) \/ c \in Digits \/ c = "_"

\* company_pattern.search with a pattern that has no (?<!\w) and (?!\w)
company_pattern_search_substring(inst) ==
    LET s == StrLower(inst.chars) IN
    \E company \in BIG_TECH_COMPANIES :
        \E start \in 1..(Len(s) - Len(company) + 1) :
            SubSeq(s, start, start + Len(company) - 1) = company

\* self.company_pattern.search(inst): (?<!\w)(company|...)(?!\w), IGNORECASE
company_pattern_search(inst) ==
    LET s == StrLower(inst.chars) IN
    \E company \in BIG_TECH_COMPANIES :
        \E start \in 1..(Len(s) - Len(company) + 1) :
            /\ s[start] = company[1]
            /\ start = 1 \/ ~IsWordChar(s[start - 1])
            /\ start + Len(company) > Len(s) \/ ~IsWordChar(s[start + Len(company)])
            /\ SubSeq(s, start, start + Len(company) - 1) = company

\* inst_name.lower().strip(), which raises on a value that is not a str
lower_strip(name) == IF IsStr(name) THEN Str(StrStrip(StrLower(name.chars))) ELSE Raised

\* the names one institution entry appends to the list
institution_names(inst) ==
    IF inst.kind = "dict"
    THEN IF Truthy(inst.InstitutionName) THEN <<lower_strip(inst.InstitutionName)>> ELSE <<>>
    ELSE IF inst.kind = "str" THEN <<lower_strip(inst)>>
    ELSE <<None>>

\* the names one author appends to the list; author.get raises on a non-dict
RECURSIVE names_of_institutions(_)
names_of_institutions(institutions) ==
    IF institutions = <<>> THEN <<>>
    ELSE institution_names(Head(institutions)) \o names_of_institutions(Tail(institutions))

author_names(author) ==
    IF author.kind # "dict" THEN <<Raised>>
    ELSE IF author.Institutions = <<>> THEN <<None>>
    ELSE names_of_institutions(author.Institutions)

RECURSIVE names_of_authors(_)
names_of_authors(as) ==
    IF as = <<>> THEN <<>>
    ELSE author_names(Head(as)) \o names_of_authors(Tail(as))

\* BigTechAnalyzer.extract_institutions: the list of names, or Raised
extract_institutions(paper) ==
    IF paper.AuthorsAndInstitutions = <<>> THEN List(<<None>>)
    ELSE LET names == names_of_authors(paper.AuthorsAndInstitutions) IN
         IF \E i \in 1..Len(names) : names[i] = Raised THEN Raised ELSE List(names)

\* the loop of classify_paper without the break: each name overwrites the
\* flag, so the last known name decides
RECURSIVE scan_institutions_last_name(_, _)
scan_institutions_last_name(institutions, all_are_none) ==
    IF institutions = <<>>
    THEN [all_are_none |-> all_are_none, contains_big_company |-> FALSE]
    ELSE IF Head(institutions) = None
         THEN scan_institutions_last_name(Tail(institutions), all_are_none)
         ELSE LET rest == scan_institutions_last_name(Tail(institutions), FALSE) IN
              IF \A i \in 1..Len(Tail(institutions)) : Tail(institutions)[i] = None
              THEN [all_are_none |-> FALSE,
                    contains_big_company |-> company_pattern_search(Head(institutions))]
              ELSE [all_are_none |-> FALSE,
                    contains_big_company |-> rest.contains_big_company]

\* the loop of classify_paper: it stops at the first name that matches
RECURSIVE scan_institutions(_, _)
scan_institutions(institutions, all_are_none) ==
    IF institutions = <<>>
    THEN [all_are_none |-> all_are_none, contains_big_company |-> FALSE]
    ELSE IF Head(institutions) = None
         THEN scan_institutions(Tail(institutions), all_are_none)
         ELSE IF company_pattern_search(Head(institutions))
              THEN [all_are_none |-> FALSE, contains_big_company |-> TRUE]
              ELSE scan_institutions(Tail(institutions), FALSE)

\* classify_paper with a label that _analyze_year does not count
classify_paper_other_label(institutions) ==
    IF institutions = <<>> THEN "all_none"
    ELSE LET seen == scan_institutions(institutions, TRUE) IN
         IF seen.all_are_none THEN "none"
         ELSE IF seen.contains_big_company THEN "has_big_company" ELSE "no_big_company"

\* BigTechAnalyzer.classify_paper
classify_paper(institutions) ==
    IF institutions = <<>> THEN "all_none"
    ELSE LET seen == scan_institutions(institutions, TRUE) IN
         IF seen.all_are_none THEN "all_none"
         ELSE IF seen.contains_big_company THEN "has_big_company" ELSE "no_big_company"

\* the list `classifications` of _analyze_year, or Raised
RECURSIVE classify_all(_)
classify_all(ps) ==
    IF ps = <<>> THEN List(<<>>)
    ELSE LET institutions == extract_institutions(Head(ps))
             rest == classify_all(Tail(ps))
         IN IF institutions = Raised \/ rest = Raised THEN Raised
            ELSE List(<<classify_paper(institutions.items)>> \o rest.items)

\* list.count(label)
Count(seq, label) == Cardinality({ i \in 1..Len(seq) : seq[i] = label })

\* count / total * 100, kept exact as a fraction
Percentage(count, total) == [num |-> count * 100, den |-> total]

\* _analyze_year with total_papers counting only the papers that have
\* institution data
analyze_year_known_only(ps) ==
    LET classifications == classify_all(ps) IN
    IF classifications = Raised THEN Raised
    ELSE LET has_big_tech == Count(classifications.items, "has_big_company")
             no_big_tech == Count(classifications.items, "no_big_company")
             all_none == Count(classifications.items, "all_none")
             total_papers == has_big_tech + no_big_tech
         IN [total_papers |-> total_papers,
             has_big_tech |-> has_big_tech,
             no_big_tech |-> no_big_tech,
             all_none |-> all_none,
             pct_has_big |-> IF total_papers > 0 THEN Percentage(has_big_tech, total_papers)
                             ELSE Percentage(0, 1),
             pct_no_big |-> IF total_papers > 0 THEN Percentage(no_big_tech, total_papers)
                            ELSE Percentage(0, 1),
             pct_all_none |-> IF total_papers > 0 THEN Percentage(all_none, total_papers)
                              ELSE Percentage(0, 1)]

\* BigTechAnalyzer._analyze_year: the BigTechStats, or Raised
analyze_year(ps) ==
    LET classifications == classify_all(ps)
        total_papers == Len(ps)
    IN IF classifications = Raised THEN Raised
       ELSE LET has_big_tech == Count(classifications.items, "has_big_company")
                no_big_tech == Count(classifications.items, "no_big_company")
                all_none == Count(classifications.items, "all_none")
            IN [total_papers |-> total_papers,
                has_big_tech |-> has_big_tech,
                no_big_tech |-> no_big_tech,
                all_none |-> all_none,
                pct_has_big |-> IF total_papers > 0 THEN Percentage(has_big_tech, total_papers)
                                ELSE Percentage(0, 1),
                pct_no_big |-> IF total_papers > 0 THEN Percentage(no_big_tech, total_papers)
                               ELSE Percentage(0, 1),
                pct_all_none |-> IF total_papers > 0 THEN Percentage(all_none, total_papers)
                                 ELSE Percentage(0, 1)]

(***************************************************************************)
(* The papers of a conference year.                                        *)
(***************************************************************************)
Paper(as) == [AuthorsAndInstitutions |-> as]
Named(name) == Institution(Str(name), Missing)

SamplePapers ==
    { Paper(<<>>),
      Paper(<<Author(<<>>)>>),
      Paper(<<Author(<<Named(<<"G","o","o","g","l","e">>)>>)>>),
      Paper(<<Author(<<Named(<<"E","T","H"," ","Z","u","r","i","c","h">>)>>)>>),
      Paper(<<Author(<<Named(<<"M","I","T">>)>>),
              Author(<<Named(<<"G","o","o","g","l","e"," ","R","e","s","e","a","r","c","h">>)>>)>>),
      Paper(<<Author(<<Named(<<"I","b","m","r","e","s","e","a","r","c","h","l","a","b"," ",
                               "U","n","i","v","e","r","s","i","t","y">>)>>)>>),
      Paper(<<Author(<<Named(<<" "," ">>)>>)>>),
      Paper(<<Author(<<Str(<<"I","B","M",",">>), Institution(Missing, Missing)>>)>>),
      Paper(<<Author(<<>>), NotDict>>) }

\* the crawler appends a paper to the year
CrawlPaper ==
    /\ stats = NotCalled
    /\ Len(papers) < MaxPapers
    /\ \E paper \in SamplePapers : papers' = Append(papers, paper)
    /\ UNCHANGED <<stats, mapperVars, predominantVars, pipelineVars>>

AnalyzeYear ==
    /\ stats = NotCalled
    /\ stats' = analyze_year(papers)
    /\ UNCHANGED <<papers, mapperVars, predominantVars, pipelineVars>>

InitAnalyzer ==
    /\ papers = <<>>
    /\ stats = NotCalled
    /\ MapperIdle
    /\ PredominantIdle
    /\ PipelineIdle

NextAnalyzer == CrawlPaper \/ AnalyzeYear

SpecAnalyzer == InitAnalyzer /\ [][NextAnalyzer]_vars

(***************************************************************************)
(* classify_paper on a list of institution names: what extract_institutions*)
(* returned for a paper, or names a caller passes.                         *)
(***************************************************************************)
SampleNames ==
    { None,
      Str(<<>>),
      Str(<<"S","t","a","n","f","o","r","d"," ","U","n","i","v","e","r","s","i","t","y">>),
      Str(<<"G","o","o","g","l","e"," ","R","e","s","e","a","r","c","h">>),
      Str(<<"M","I","T">>),
      Str(<<"I","B","M",",">>),
      Str(<<"I","B","M"," ","R","e","s","e","a","r","c","h">>),
      Str(<<"I","b","m","r","e","s","e","a","r","c","h","l","a","b"," ","U","n","i","v","e","r","s","i","t","y">>),
      Str(<<"a","w","s","_","l","a","b">>),
      Str(<<"H","P","2">>),
      Str(<<"(","M","e","t","a",")">>) }

\* the list is what extract_institutions returns for a paper
ExtractInstitutions ==
    /\ classified = NotCalled
    /\ name_list = <<>>
    /\ \E paper \in SamplePapers :
           /\ extract_institutions(paper) # Raised
           /\ name_list' = extract_institutions(paper).items
    /\ UNCHANGED <<classified, engineVars, batchVars,
                   csvVars, runVars, reportVars>>

\* a caller adds a name to the list
AppendName ==
    /\ classified = NotCalled
    /\ Len(name_list) < MaxNames
    /\ \E name \in SampleNames : name_list' = Append(name_list, name)
    /\ UNCHANGED <<classified, engineVars, batchVars,
                   csvVars, runVars, reportVars>>

ClassifyPaper ==
    /\ classified = NotCalled
    /\ classified' = [kind |-> "label", label |-> classify_paper(name_list)]
    /\ UNCHANGED <<name_list, engineVars, batchVars,
                   csvVars, runVars, reportVars>>

InitClassifier ==
    /\ name_list = <<>>
    /\ classified = NotCalled
    /\ EngineIdle
    /\ BatchIdle
    /\ CsvIdle
    /\ RunIdle
    /\ ReportIdle

NextClassifier == ExtractInstitutions \/ AppendName \/ ClassifyPaper

SpecClassifier == InitClassifier /\ [][NextClassifier]_vars

(***************************************************************************)
(* Files and directories.  A directory is the list of its JSON files in    *)
(* the order get_conferences_from_directory returns the names (sorted); a  *)
(* file that load_json raises on (absent, or not valid JSON) is Unreadable.*)
(***************************************************************************)
Unreadable == [kind |-> "unreadable"]
Dict(years) == [kind |-> "dict", years |-> years]
Year(year, ps) == [year |-> year, papers |-> ps]
File(name, content) == [name |-> name, content |-> content]
Dir(files) == [kind |-> "dir", files |-> files]

\* FileManager.load_json
load_json(file) == IF file.content = Unreadable THEN Raised ELSE file.content

(***************************************************************************)
(* DataReducer                                                             *)
(***************************************************************************)
RawPaper(title, as) == [kind |-> "dict", Title |-> title, AuthorsAndInstitutions |-> as]

ProcessingStats(total, with_continent, without_data, unknown) ==
    [total_papers |-> total,
     papers_with_continent |-> with_continent,
     papers_without_sufficient_data |-> without_data,
     unknown_countries |-> unknown]

\* the accumulation of a paper's stats in process_conference
AddStats(a, b) ==
    ProcessingStats(a.total_papers + b.total_papers,
                    a.papers_with_continent + b.papers_with_continent,
                    a.papers_without_sufficient_data + b.papers_without_sufficient_data,
                    a.unknown_countries + b.unknown_countries)

\* DataReducer.process_paper: every (processed_paper, stats) it can return;
\* paper.get raises on a paper that is not a dict
process_paper(paper, year) ==
    IF paper.kind # "dict" THEN {Raised}
    ELSE LET authors_list == paper.AuthorsAndInstitutions
             calls == IF authors_list # <<>>
                      THEN get_predominant_continent(authors_list)
                      ELSE {Returned(NoVotes)}
         IN { [kind |-> "ok",
               paper |-> [kind |-> "dict",
                          Title |-> IF paper.Title = Missing THEN Str(<<>>) ELSE paper.Title,
                          Year |-> year,
                          PredominantContinent |-> List(r.continents),
                          AuthorsAndInstitutions |-> authors_list],
               stats |-> ProcessingStats(
                   1,
                   IF r.continents # <<>> THEN 1 ELSE 0,
                   IF (r.no_inst > 0 \/ r.unknown > 0)
                        /\ 2 * (r.no_inst + r.unknown) >= Len(authors_list)
                   THEN 1 ELSE 0,
                   r.unknown)] : r \in calls }

\* the paper loop of process_conference over the first n papers of a year
RECURSIVE process_papers(_, _, _)
process_papers(ps, year, n) ==
    IF n = 0 THEN {[kind |-> "ok", papers |-> <<>>, stats |-> ProcessingStats(0, 0, 0, 0)]}
    ELSE UNION {
        IF before.kind = "raise" THEN {Raised}
        ELSE { IF p.kind = "raise" THEN Raised
               ELSE [kind |-> "ok",
                     papers |-> Append(before.papers, p.paper),
                     stats |-> AddStats(before.stats, p.stats)]
               : p \in process_paper(ps[n], year) }
        : before \in process_papers(ps, year, n - 1) }

\* the year loop of process_conference over the first n years
RECURSIVE process_years(_, _)
process_years(years, n) ==
    IF n = 0 THEN {[kind |-> "ok", data |-> <<>>, stats |-> ProcessingStats(0, 0, 0, 0)]}
    ELSE UNION {
        IF before.kind = "raise" THEN {Raised}
        ELSE { IF y.kind = "raise" THEN Raised
               ELSE [kind |-> "ok",
                     data |-> Append(before.data, Year(years[n].year, y.papers)),
                     stats |-> AddStats(before.stats, y.stats)]
               : y \in process_papers(years[n].papers, years[n].year, Len(years[n].papers)) }
        : before \in process_years(years, n - 1) }

\* DataReducer.process_conference: extended_data.items() raises on a value
\* that is not a dict
process_conference(extended_data) ==
    IF extended_data.kind # "dict" THEN {Raised}
    ELSE process_years(extended_data.years, Len(extended_data.years))

NoOutput == [files |-> <<>>, all_stats |-> <<>>]

\* the conference loop of process_all_conferences with one ProcessingStats
\* object shared by the conferences: each entry of all_stats holds the sums
\* up to its conference
RECURSIVE process_files_shared_stats(_, _)
process_files_shared_stats(files, n) ==
    IF n = 0 THEN {NoOutput}
    ELSE UNION {
        LET extended_data == load_json(files[n]) IN
        IF extended_data = Raised THEN {before}
        ELSE { IF processed.kind = "raise" THEN before
               ELSE [files |-> Append(before.files,
                                      File(files[n].name, Dict(processed.data))),
                     all_stats |-> Append(before.all_stats,
                                          <<files[n].name,
                                            IF before.all_stats = <<>> THEN processed.stats
                                            ELSE AddStats(
                                                before.all_stats[Len(before.all_stats)][2],
                                                processed.stats)>>)]
               : processed \in process_conference(extended_data) }
        : before \in process_files_shared_stats(files, n - 1) }

\* the conference loop of process_all_conferences over the first n files:
\* the files saved and the stats recorded
RECURSIVE process_files(_, _)
process_files(files, n) ==
    IF n = 0 THEN {NoOutput}
    ELSE UNION {
        LET extended_data == load_json(files[n]) IN
        IF extended_data = Raised THEN {before}
        ELSE { IF processed.kind = "raise" THEN before
               ELSE [files |-> Append(before.files,
                                      File(files[n].name, Dict(processed.data))),
                     all_stats |-> Append(before.all_stats,
                                          <<files[n].name, processed.stats>>)]
               : processed \in process_conference(extended_data) }
        : before \in process_files(files, n - 1) }

\* DataReducer.process_all_conferences: every outcome it can have: Raised
\* when the extended directory does not exist, else the files saved to
\* ProcessedData and the returned stats
process_all_conferences(dir) ==
    IF dir = Missing THEN {Raised}
    ELSE { [kind |-> "ok", files |-> out.files, all_stats |-> out.all_stats]
           : out \in process_files(dir.files, Len(dir.files)) }

(***************************************************************************)
(* BigTechAnalyzer over the ProcessedData directory                        *)
(***************************************************************************)
\* round(pct, 2) of a percentage kept as a fraction: the number of
\* hundredths, ties going to the even one
round2(pct) ==
    LET q == (pct.num * 100) \div pct.den
        r == (pct.num * 100) % pct.den
    IN IF 2 * r < pct.den THEN q
       ELSE IF 2 * r > pct.den THEN q + 1
       ELSE IF q % 2 = 0 THEN q ELSE q + 1

\* BigTechAnalyzer.analyze_conference over the first n years: the list of
\* (year, stats), or Raised; papers_by_year.items() raises on a non-dict
RECURSIVE analyze_years(_, _)
analyze_years(years, n) ==
    IF n = 0 THEN List(<<>>)
    ELSE LET before == analyze_years(years, n - 1)
             year_stats == analyze_year(years[n].papers)
         IN IF before = Raised \/ year_stats = Raised THEN Raised
            ELSE List(Append(before.items, <<years[n].year, year_stats>>))

analyze_conference(papers_by_year) ==
    IF papers_by_year.kind # "dict" THEN Raised
    ELSE analyze_years(papers_by_year.years, Len(papers_by_year.years))

\* lines 225-232: one row per entry of stats_by_year, whatever its paper count
conference_rows(conference, stats_by_year) ==
    [i \in 1..Len(stats_by_year) |->
        [Conference |-> conference,
         Year |-> stats_by_year[i][1],
         pct_has_big |-> round2(stats_by_year[i][2].pct_has_big),
         pct_no_big |-> round2(stats_by_year[i][2].pct_no_big),
         pct_all_none |-> round2(stats_by_year[i][2].pct_all_none)]]

\* conference.lower() == "socc"
is_socc(conference) == StrLower(conference.chars) = <<"s","o","c","c">>

\* the conference loop of analyze_all_conferences where a failure ends the
\* loop instead of moving to the next conference
RECURSIVE analyze_files_until_failure(_, _)
analyze_files_until_failure(files, n) ==
    IF n = 0 THEN <<>>
    ELSE LET before == analyze_files_until_failure(files, n - 1) IN
         IF \E m \in 1..(n - 1) :
                /\ ~is_socc(files[m].name)
                /\ \/ load_json(files[m]) = Raised
                   \/ analyze_conference(files[m].content) = Raised
         THEN before
         ELSE IF is_socc(files[n].name) THEN before
         ELSE LET papers_by_year == load_json(files[n]) IN
              IF papers_by_year = Raised THEN before
              ELSE LET stats_by_year == analyze_conference(papers_by_year) IN
                   IF stats_by_year = Raised THEN before
                   ELSE before \o conference_rows(files[n].name, stats_by_year.items)

\* the conference loop of analyze_all_conferences over the first n files
RECURSIVE analyze_files(_, _)
analyze_files(files, n) ==
    IF n = 0 THEN <<>>
    ELSE LET before == analyze_files(files, n - 1) IN
         IF is_socc(files[n].name) THEN before
         ELSE LET papers_by_year == load_json(files[n]) IN
              IF papers_by_year = Raised THEN before
              ELSE LET stats_by_year == analyze_conference(papers_by_year) IN
                   IF stats_by_year = Raised THEN before
                   ELSE before \o conference_rows(files[n].name, stats_by_year.items)

\* BigTechAnalyzer.analyze_all_conferences: the rows, or Raised when the
\* ProcessedData directory does not exist
analyze_all_conferences(dir) ==
    IF dir = Missing THEN Raised
    ELSE List(analyze_files(dir.files, Len(dir.files)))

\* the keys of continent_stats, in the order of the dict literal
ContinentBuckets == <<"NA", "EU", "AS", "Other">>

NoContinentStats ==
    [b \in {"NA", "EU", "AS", "Other"} |-> [has_big |-> 0, no_big |-> 0, total |-> 0]]

\* lines 296-309 taking the first element of the list that is not "Unknown"
continent_key_first_known(paper) ==
    LET field == paper.PredominantContinent
        known == IF field = Missing THEN <<>>
                 ELSE SelectSeq(field.items, LAMBDA c : c # Unknown)
    IN IF known = <<>> THEN "skip"
       ELSE LET upper == StrUpper(known[1].chars) IN
            IF upper = <<"N","A">> THEN "NA"
            ELSE IF upper = <<"E","U">> THEN "EU"
            ELSE IF upper = <<"A","S">> THEN "AS"
            ELSE "Other"

\* lines 296-309: the key of continent_stats a paper is counted under, or
\* "skip" when the loop moves on to the next paper
continent_key(paper) ==
    LET field == paper.PredominantContinent
        first == IF field = Missing THEN Unknown
                 ELSE IF field.kind = "list"
                      THEN IF field.items = <<>> THEN None ELSE field.items[1]
                      ELSE field
    IN IF first = None \/ ~IsStr(first) \/ first = Unknown \/ first = Str(<<>>) THEN "skip"
       ELSE LET upper == StrUpper(first.chars) IN
            IF upper = <<"N","A">> THEN "NA"
            ELSE IF upper = <<"E","U">> THEN "EU"
            ELSE IF upper = <<"A","S">> THEN "AS"
            ELSE "Other"

\* the paper loop of analyze_by_continent counting every paper of the year
\* in the total of a bucket, resolved or not
RECURSIVE count_by_continent_all_papers(_, _)
count_by_continent_all_papers(ps, n) ==
    IF n = 0 THEN NoContinentStats
    ELSE LET before == count_by_continent_all_papers(ps, n - 1)
             key == IF continent_key(ps[n]) = "skip" THEN "Other" ELSE continent_key(ps[n])
         IN IF before = Raised THEN Raised
            ELSE LET institutions == extract_institutions(ps[n]) IN
                 IF institutions = Raised THEN Raised
                 ELSE LET label == classify_paper(institutions.items) IN
                      [before EXCEPT
                          ![key].has_big = @ + (IF label = "has_big_company" THEN 1 ELSE 0),
                          ![key].no_big = @ + (IF label = "no_big_company" THEN 1 ELSE 0),
                          ![key].total = @ + 1]

\* the paper loop of analyze_by_continent over the first n papers of a
\* year: continent_stats, or Raised
RECURSIVE count_by_continent(_, _)
count_by_continent(ps, n) ==
    IF n = 0 THEN NoContinentStats
    ELSE LET before == count_by_continent(ps, n - 1)
             key == continent_key(ps[n])
         IN IF before = Raised THEN Raised
            ELSE IF key = "skip" THEN before
            ELSE LET institutions == extract_institutions(ps[n]) IN
                 IF institutions = Raised THEN Raised
                 ELSE LET label == classify_paper(institutions.items) IN
                      [before EXCEPT
                          ![key].has_big = @ + (IF label = "has_big_company" THEN 1 ELSE 0),
                          ![key].no_big = @ + (IF label = "no_big_company" THEN 1 ELSE 0),
                          ![key].total = @ + 1]

\* f'pct_big_{continent.lower()}'
level_2(key) ==
    CASE key = "NA" -> "pct_big_na"
      [] key = "EU" -> "pct_big_eu"
      [] key = "AS" -> "pct_big_as"
      [] key = "Other" -> "pct_big_other"

\* lines 322-336 writing a row for every bucket, empty or not
continent_rows_all_buckets(conference, year, continent_stats) ==
    LET total_papers == continent_stats["NA"].total + continent_stats["EU"].total
                        + continent_stats["AS"].total + continent_stats["Other"].total
    IN IF total_papers > 0
       THEN [i \in 1..Len(ContinentBuckets) |->
                [Conference |-> conference,
                 Year |-> year,
                 level_2 |-> level_2(ContinentBuckets[i]),
                 X0 |-> round2(Percentage(continent_stats[ContinentBuckets[i]].has_big,
                                          total_papers))]]
       ELSE <<>>

\* lines 322-336: the rows of a year
continent_rows(conference, year, continent_stats) ==
    LET total_papers == continent_stats["NA"].total + continent_stats["EU"].total
                        + continent_stats["AS"].total + continent_stats["Other"].total
        filled == SelectSeq(ContinentBuckets, LAMBDA b : continent_stats[b].total > 0)
    IN IF total_papers > 0
       THEN [i \in 1..Len(filled) |->
                [Conference |-> conference,
                 Year |-> year,
                 level_2 |-> level_2(filled[i]),
                 X0 |-> round2(Percentage(continent_stats[filled[i]].has_big,
                                          total_papers))]]
       ELSE <<>>

\* the year loop of analyze_by_continent over the first n years
RECURSIVE continent_years(_, _, _)
continent_years(conference, years, n) ==
    IF n = 0 THEN List(<<>>)
    ELSE LET before == continent_years(conference, years, n - 1)
             continent_stats == count_by_continent(years[n].papers, Len(years[n].papers))
         IN IF before = Raised \/ continent_stats = Raised THEN Raised
            ELSE List(before.items \o continent_rows(conference, years[n].year, continent_stats))

\* BigTechAnalyzer.analyze_by_continent: the rows, or Raised
analyze_by_continent(conference, papers_by_year) ==
    IF papers_by_year.kind # "dict" THEN Raised
    ELSE continent_years(conference, papers_by_year.years, Len(papers_by_year.years))

\* the conference loop of generate_continent_csv over the first n files
RECURSIVE continent_files(_, _)
continent_files(files, n) ==
    IF n = 0 THEN <<>>
    ELSE LET before == continent_files(files, n - 1) IN
         IF is_socc(files[n].name) THEN before
         ELSE LET papers_by_year == load_json(files[n]) IN
              IF papers_by_year = Raised THEN before
              ELSE LET continent_results == analyze_by_continent(files[n].name, papers_by_year)
                   IN IF continent_results = Raised THEN before
                      ELSE before \o continent_results.items

\* BigTechAnalyzer.generate_continent_csv: the rows handed to save_csv, or
\* Raised when the ProcessedData directory does not exist
generate_continent_csv(dir) ==
    IF dir = Missing THEN Raised
    ELSE List(continent_files(dir.files, Len(dir.files)))

(***************************************************************************)
(* The papers the crawler writes to an extended data file, and the three   *)
(* pipeline steps that read the directories: process_all_conferences,      *)
(* analyze_all_conferences and generate_continent_csv.                     *)
(***************************************************************************)
Title == Str(<<"T">>)
GooglePaper == RawPaper(Title, <<Author(<<Institution(Str(<<"G","o","o","g","l","e">>), Str(<<"U","S">>))>>)>>)
EthPaper == RawPaper(Title, <<Author(<<Institution(Str(<<"E","T","H"," ","Z","u","r","i","c","h">>), Str(<<"C","H">>))>>)>>)
NoDataPaper == RawPaper(Title, <<Author(<<>>)>>)
UnknownPaper == RawPaper(Title, <<Author(<<Institution(Str(<<"U","n","i","v">>), Str(<<"U","S","A">>))>>)>>)
OtherPaper == RawPaper(Title, <<Author(<<Institution(Str(<<"U","S","P">>), Str(<<"B","R">>))>>)>>)
TiedBigPaper == RawPaper(Title, <<Author(<<Institution(Str(<<"M","I","T">>), Str(<<"U","S">>)), Institution(Str(<<"A","l","i","b","a","b","a">>), Str(<<"C","N">>))>>)>>)
TiedAcademicPaper == RawPaper(Title, <<Author(<<Institution(Str(<<"M","I","T">>), Str(<<"U","S">>))>>), Author(<<Institution(Str(<<"T","s","i","n","g","h","u","a">>), Str(<<"C","N">>))>>)>>)
TiedUnnamedPaper == RawPaper(Title, <<Author(<<Institution(Missing, Str(<<"C","N">>))>>), Author(<<Institution(Missing, Str(<<"U","S">>))>>)>>)
RaisingPaper == RawPaper(Title, <<Author(<<Institution(Str(<<"G","o","o","g","l","e">>), Str(<<"U","S">>))>>), NotDict>>)

ConferencePapers == {GooglePaper, NoDataPaper, UnknownPaper, OtherPaper, TiedBigPaper}

YearLabels == <<"2019", "2020", "2021", "2022">>
Atc == Str(<<"a","t","c">>)
Nsdi == Str(<<"n","s","d","i">>)
Socc == Str(<<"s","o","c","c">>)

\* the number of papers of a file's years
RECURSIVE PaperCount(_)
PaperCount(years) ==
    IF years = <<>> THEN 0 ELSE Len(Head(years).papers) + PaperCount(Tail(years))

\* the crawler opens a new year in the file of the conference
CrawlYear ==
    /\ all_stats = NotCalled
    /\ LET years == extended_dir.files[1].content.years IN
       /\ Len(years) < MaxYears
       /\ Len(years) < Len(YearLabels)
       /\ extended_dir' = Dir(<<File(Atc, Dict(Append(years,
                                    Year(YearLabels[Len(years) + 1], <<>>))))>>)
    /\ UNCHANGED <<processed_dir, all_stats, results, continent_csv, engineVars, classifierVars,
                   csvVars, runVars, reportVars>>

\* the crawler adds a paper to the last year of the file
CrawlConferencePaper ==
    /\ all_stats = NotCalled
    /\ LET years == extended_dir.files[1].content.years IN
       /\ years # <<>>
       /\ PaperCount(years) < MaxPapers
       /\ \E paper \in ConferencePapers :
              extended_dir' = Dir(<<File(Atc, Dict(
                  [years EXCEPT ![Len(years)].papers = Append(@, paper)]))>>)
    /\ UNCHANGED <<processed_dir, all_stats, results, continent_csv, engineVars, classifierVars,
                   csvVars, runVars, reportVars>>

\* step 1 of the pipeline: DataReducer.process_all_conferences
ProcessAllConferences ==
    /\ all_stats = NotCalled
    /\ \E out \in process_all_conferences(extended_dir) :
           IF out = Raised
           THEN all_stats' = Raised /\ UNCHANGED processed_dir
           ELSE all_stats' = List(out.all_stats) /\ processed_dir' = Dir(out.files)
    /\ UNCHANGED <<extended_dir, results, continent_csv, engineVars, classifierVars,
                   csvVars, runVars, reportVars>>

\* step 3 of the pipeline: BigTechAnalyzer.analyze_all_conferences
AnalyzeAllConferences ==
    /\ all_stats # NotCalled
    /\ results = NotCalled
    /\ results' = analyze_all_conferences(processed_dir)
    /\ UNCHANGED <<extended_dir, processed_dir, all_stats, continent_csv, engineVars,
                   classifierVars,
                   csvVars, runVars, reportVars>>

\* step 3 of the pipeline: BigTechAnalyzer.generate_continent_csv
GenerateContinentCsv ==
    /\ all_stats # NotCalled
    /\ continent_csv = NotCalled
    /\ continent_csv' = generate_continent_csv(processed_dir)
    /\ UNCHANGED <<extended_dir, processed_dir, all_stats, results, engineVars, classifierVars,
                   csvVars, runVars, reportVars>>

\* one conference, its file filled year by year
InitConference ==
    /\ extended_dir = Dir(<<File(Atc, Dict(<<>>))>>)
    /\ processed_dir = Missing
    /\ all_stats = NotCalled
    /\ results = NotCalled
    /\ continent_csv = NotCalled
    /\ EngineIdle
    /\ ClassifierIdle
    /\ CsvIdle
    /\ RunIdle
    /\ ReportIdle

NextConference ==
    \/ CrawlYear
    \/ CrawlConferencePaper
    \/ ProcessAllConferences
    \/ AnalyzeAllConferences
    \/ GenerateContinentCsv

SpecConference == InitConference /\ [][NextConference]_vars

(***************************************************************************)
(* The end-to-end scenario: one conference whose year "2020" receives, in  *)
(* any order, a paper at Google, a paper at ETH Zurich, a paper without    *)
(* institution data and one paper tied between NA and AS.                  *)
(***************************************************************************)
TiedPapers == {TiedBigPaper, TiedAcademicPaper, TiedUnnamedPaper}
ScenarioPapers == {GooglePaper, EthPaper, NoDataPaper} \cup TiedPapers

CrawlScenarioPaper ==
    /\ all_stats = NotCalled
    /\ LET crawled == extended_dir.files[1].content.years[1].papers IN
       \E paper \in ScenarioPapers :
           /\ \A i \in 1..Len(crawled) : crawled[i] # paper
           /\ paper \in TiedPapers => \A i \in 1..Len(crawled) : crawled[i] \notin TiedPapers
           /\ extended_dir' = Dir(<<File(Atc, Dict(<<Year("2020", Append(crawled, paper))>>))>>)
    /\ UNCHANGED <<processed_dir, all_stats, results, continent_csv, engineVars, classifierVars,
                   csvVars, runVars, reportVars>>

InitScenario ==
    /\ extended_dir = Dir(<<File(Atc, Dict(<<Year("2020", <<>>)>>))>>)
    /\ processed_dir = Missing
    /\ all_stats = NotCalled
    /\ results = NotCalled
    /\ continent_csv = NotCalled
    /\ EngineIdle
    /\ ClassifierIdle
    /\ CsvIdle
    /\ RunIdle
    /\ ReportIdle

NextScenario ==
    \/ CrawlScenarioPaper
    \/ ProcessAllConferences
    \/ AnalyzeAllConferences
    \/ GenerateContinentCsv

SpecScenario == InitScenario /\ [][NextScenario]_vars

(***************************************************************************)
(* A batch of conferences: the extended directory receives the files of up *)
(* to three conferences, some of which cannot be loaded or processed.      *)
(***************************************************************************)
ConferenceNames == <<Atc, Nsdi, Socc>>

SampleContents ==
    { Unreadable,
      NotDict,
      Dict(<<>>),
      Dict(<<Year("2020", <<GooglePaper>>)>>),
      Dict(<<Year("2020", <<EthPaper>>), Year("2021", <<>>)>>),
      Dict(<<Year("2020", <<RaisingPaper>>)>>),
      Dict(<<Year("2020", <<TiedBigPaper>>)>>),
      Dict(<<Year("2020", <<NotDict>>)>>) }

\* the position of a conference name in the sorted list of names
NameIndex(name) == CHOOSE i \in 1..Len(ConferenceNames) : ConferenceNames[i] = name

\* the crawler leaves the file of one more conference in the directory
CrawlConferenceFile ==
    /\ all_stats = NotCalled
    /\ LET files == extended_dir.files
           last == IF files = <<>> THEN 0 ELSE NameIndex(files[Len(files)].name)
       IN \E i \in (last + 1)..Len(ConferenceNames) : \E content \in SampleContents :
              extended_dir' = Dir(Append(files, File(ConferenceNames[i], content)))
    /\ UNCHANGED <<processed_dir, all_stats, results, continent_csv, engineVars, classifierVars,
                   csvVars, runVars, reportVars>>

InitBatch ==
    /\ extended_dir = Dir(<<>>)
    /\ processed_dir = Missing
    /\ all_stats = NotCalled
    /\ results = NotCalled
    /\ continent_csv = NotCalled
    /\ EngineIdle
    /\ ClassifierIdle
    /\ CsvIdle
    /\ RunIdle
    /\ ReportIdle

NextBatch ==
    \/ CrawlConferenceFile
    \/ ProcessAllConferences
    \/ AnalyzeAllConferences
    \/ GenerateContinentCsv

SpecBatch == InitBatch /\ [][NextBatch]_vars

(***************************************************************************)
(* One conference year of big-tech papers spread over the continents, for  *)
(* the continent table of analyze_by_continent.                            *)
(***************************************************************************)
MaxYearPapers == 6

\* a paper whose author is at Google in the given country
GoogleIn(country) ==
    RawPaper(Title, <<Author(<<Institution(Str(<<"G","o","o","g","l","e">>), Str(country))>>)>>)

\* a paper whose author has an unresolved and a resolved country: "Unknown"
\* and AS tie, in the order the set of countries iterates in
UnknownTiedPaper ==
    RawPaper(Title, <<Author(<<Institution(Str(<<"G","o","o","g","l","e">>), Str(<<"U","S","A">>)),
                               Institution(Str(<<"G","o","o","g","l","e">>), Str(<<"C","N">>))>>)>>)

BucketPapers ==
    { GoogleIn(<<"U","S">>), GoogleIn(<<"F","R">>), GoogleIn(<<"B","R">>), UnknownTiedPaper }

\* the crawler adds a paper to the year
CrawlBucketPaper ==
    /\ all_stats = NotCalled
    /\ LET ps == extended_dir.files[1].content.years[1].papers IN
       /\ Len(ps) < MaxYearPapers
       /\ \E paper \in BucketPapers :
              extended_dir' = Dir(<<File(Atc, Dict(<<Year("2020", Append(ps, paper))>>))>>)
    /\ UNCHANGED <<processed_dir, all_stats, results, continent_csv, engineVars, classifierVars,
                   csvVars, runVars, reportVars>>

InitBuckets ==
    /\ extended_dir = Dir(<<File(Atc, Dict(<<Year("2020", <<>>)>>))>>)
    /\ processed_dir = Missing
    /\ all_stats = NotCalled
    /\ results = NotCalled
    /\ continent_csv = NotCalled
    /\ EngineIdle
    /\ ClassifierIdle
    /\ CsvIdle
    /\ RunIdle
    /\ ReportIdle

NextBuckets ==
    \/ CrawlBucketPaper
    \/ ProcessAllConferences
    \/ GenerateContinentCsv

SpecBuckets == InitBuckets /\ [][NextBuckets]_vars

(***************************************************************************)
(* FileManager.save_csv and load_csv as text, and big_tech_analyzer.main,  *)
(* which writes big_tech_analysis.csv and loads it right after.            *)
(***************************************************************************)
DigitChar(d) == <<"0","1","2","3","4","5","6","7","8","9">>[d + 1]
DigitValue(c) == CHOOSE d \in 0..9 : DigitChar(d) = c

\* str(n) of a natural number
RECURSIVE IntStr(_)
IntStr(n) == IF n < 10 THEN <<DigitChar(n)>> ELSE IntStr(n \div 10) \o <<DigitChar(n % 10)>>

\* int(s) of a string of digits
RECURSIVE IntValue(_)
IntValue(s) ==
    IF s = <<>> THEN 0 ELSE 10 * IntValue(SubSeq(s, 1, Len(s) - 1)) + DigitValue(s[Len(s)])

\* what csv.writer writes for a float rounded to two decimals, given in
\* hundredths: str(50.0) = "50.0", str(33.33) = "33.33", str(66.7) = "66.7"
float_str(hundredths) ==
    IntStr(hundredths \div 100) \o <<".">>
        \o (IF hundredths % 10 = 0 THEN <<DigitChar((hundredths % 100) \div 10)>>
            ELSE <<DigitChar((hundredths % 100) \div 10), DigitChar(hundredths % 10)>>)

\* round(float(s), 2) in hundredths, for the text of a decimal number
parse_float(s) ==
    LET dot == CHOOSE i \in 1..Len(s) : s[i] = "."
        whole == SubSeq(s, 1, dot - 1)
        fraction == SubSeq(s, dot + 1, Len(s))
    IN 100 * IntValue(whole)
         + (IF Len(fraction) = 1 THEN 10 * IntValue(fraction) ELSE IntValue(SubSeq(fraction, 1, 2)))

\* a file written by csv.DictWriter: the cells of its lines after the header
CsvFile(lines) == [kind |-> "csv", lines |-> lines]

\* file_manager.py:130-134: the cells writerows writes for the rows of
\* analyze_all_conferences; a str is written as it is, a float by str()
writerows(data) ==
    [i \in 1..Len(data) |->
        [Conference |-> data[i].Conference.chars,
         Year |-> data[i].Year,
         pct_has_big |-> float_str(data[i].pct_has_big),
         pct_no_big |-> float_str(data[i].pct_no_big),
         pct_all_none |-> float_str(data[i].pct_all_none)]]

\* FileManager.save_csv on the text file: `if not data: return` comes before
\* the file is opened
save_csv_text(file, data) == IF data = <<>> THEN file ELSE CsvFile(writerows(data))

\* FileManager.load_csv: FileNotFoundError, or the rows of csv.DictReader,
\* every value of which is a str
load_csv(file) ==
    IF file = Missing THEN Raised
    ELSE List([i \in 1..Len(file.lines) |->
                  [Conference |-> Str(file.lines[i].Conference),
                   Year |-> file.lines[i].Year,
                   pct_has_big |-> Str(file.lines[i].pct_has_big),
                   pct_no_big |-> Str(file.lines[i].pct_no_big),
                   pct_all_none |-> Str(file.lines[i].pct_all_none)]])

\* big_tech_analyzer.main, lines 459-475: generate_csv, then load_csv of the
\* path it returns; an exception of either ends main
big_tech_main(dir, file) ==
    LET analyzed == analyze_all_conferences(dir) IN
    IF analyzed = Raised
    THEN [results |-> Raised, file |-> file, loaded |-> NotCalled]
    ELSE LET written == save_csv_text(file, analyzed.items) IN
         [results |-> analyzed, file |-> written, loaded |-> load_csv(written)]

BigTechMain ==
    /\ all_stats # NotCalled
    /\ results = NotCalled
    /\ \E out \in { big_tech_main(processed_dir, big_tech_csv) } :
           /\ results' = out.results
           /\ big_tech_csv' = out.file
           /\ loaded' = out.loaded
    /\ UNCHANGED <<extended_dir, processed_dir, all_stats, continent_csv, engineVars,
                   classifierVars, csvVars, runVars>>

\* the file an earlier run of the analysis left in outputs/csv
EarlierCsv ==
    CsvFile(<<[Conference |-> Atc.chars, Year |-> "2019", pct_has_big |-> <<"1","0","0",".","0">>,
               pct_no_big |-> <<"0",".","0">>, pct_all_none |-> <<"0",".","0">>]>>)

InitReport ==
    /\ extended_dir = Dir(<<>>)
    /\ processed_dir = Missing
    /\ all_stats = NotCalled
    /\ results = NotCalled
    /\ continent_csv = NotCalled
    /\ big_tech_csv \in {Missing, EarlierCsv}
    /\ loaded = NotCalled
    /\ EngineIdle
    /\ ClassifierIdle
    /\ CsvIdle
    /\ RunIdle

NextReport ==
    \/ CrawlConferenceFile
    \/ ProcessAllConferences
    \/ BigTechMain

SpecReport == InitReport /\ [][NextReport]_vars

(***************************************************************************)
(* CSVGenerator                                                            *)
(***************************************************************************)
CSVGenerationResult(row_count, success) == [row_count |-> row_count, success |-> success]

\* FileManager.save_csv opening the file whatever the row list is
save_csv_always_opening(file, rows) == List(rows)

\* FileManager.save_csv: the file after the call; an empty row list returns
\* before the file is opened
save_csv(file, rows) == IF rows = <<>> THEN file ELSE List(rows)

\* str.startswith
StartsWith(s, prefix) == Len(s) >= Len(prefix) /\ SubSeq(s, 1, Len(prefix)) = prefix

\* json_file.stem.startswith("socc_"), the stem being <conference>_data
stem_is_socc(conference) ==
    StartsWith(conference.chars \o <<"_","d","a","t","a">>, <<"s","o","c","c","_">>)

\* lines 78-87: the rows of the papers of a year, or Raised
RECURSIVE paper_rows(_, _, _)
paper_rows(conference, year, ps) ==
    IF ps = <<>> THEN List(<<>>)
    ELSE LET paper == Head(ps)
             rest == paper_rows(conference, year, Tail(ps))
         IN IF paper.kind # "dict" \/ rest = Raised THEN Raised
            ELSE LET continents == paper.PredominantContinent IN
                 List(<<[Conference |-> conference,
                         Year |-> year,
                         Title |-> paper.Title,
                         PredominantContinent |->
                             IF continents = Missing \/ continents.items = <<>> THEN None
                             ELSE continents.items[1]]>> \o rest.items)

\* lines 77-87: the rows of the years of a file, or Raised
RECURSIVE paper_year_rows(_, _)
paper_year_rows(conference, years) ==
    IF years = <<>> THEN List(<<>>)
    ELSE LET first == paper_rows(conference, Head(years).year, Head(years).papers)
             rest == paper_year_rows(conference, Tail(years))
         IN IF first = Raised \/ rest = Raised THEN Raised
            ELSE List(first.items \o rest.items)

\* lines 68-87: all_rows after the file loop, or Raised
RECURSIVE paper_file_rows(_)
paper_file_rows(files) ==
    IF files = <<>> THEN List(<<>>)
    ELSE LET rest == paper_file_rows(Tail(files)) IN
         IF rest = Raised THEN Raised
         ELSE IF stem_is_socc(Head(files).name) THEN rest
         ELSE LET data == load_json(Head(files)) IN
              IF data = Raised \/ data.kind # "dict" THEN Raised
              ELSE LET rows == paper_year_rows(Head(files).name, data.years) IN
                   IF rows = Raised THEN Raised ELSE List(rows.items \o rest.items)

\* the outcome of a generator: its CSVGenerationResult and the CSV file
\* after the call
Generated(file, all_rows) ==
    IF all_rows = Raised
    THEN [result |-> CSVGenerationResult(0, FALSE), file |-> file]
    ELSE [result |-> CSVGenerationResult(Len(all_rows.items), TRUE),
          file |-> save_csv(file, all_rows.items)]

\* CSVGenerator.generate_papers_csv
generate_papers_csv(dir, file) ==
    IF dir = Missing THEN [result |-> CSVGenerationResult(0, FALSE), file |-> file]
    ELSE Generated(file, paper_file_rows(dir.files))

\* committee data: {year: {member_name: institutions}}, institutions being
\* {institution: country}, a country string, or anything else
Member(name, institutions) == [name |-> name, institutions |-> institutions]
Affiliations(items) == [kind |-> "dict", items |-> items]
CommitteeYear(year, members) == [year |-> year, members |-> members]

\* the continent codes in the order sorted() gives them
SortedContinents ==
    << Str(<<"A","F">>), Str(<<"A","N">>), Str(<<"A","S">>), Str(<<"E","U">>),
       Str(<<"N","A">>), Str(<<"O","C">>), Str(<<"S","A">>) >>

\* ";".join(strs)
RECURSIVE JoinSemicolon(_)
JoinSemicolon(strs) ==
    IF strs = <<>> THEN <<>>
    ELSE IF Len(strs) = 1 THEN strs[1].chars
    ELSE strs[1].chars \o <<";">> \o JoinSemicolon(Tail(strs))

\* lines 145-178 joining the continent of every country in the order of the
\* mapping, with neither set nor sorted()
member_row_unsorted(conference, year, member) ==
    LET institutions == member.institutions
        institution_list ==
            IF institutions.kind = "dict"
            THEN [i \in 1..Len(institutions.items) |-> institutions.items[i][1]]
            ELSE <<>>
        countries ==
            IF institutions.kind = "dict"
            THEN SelectSeq([i \in 1..Len(institutions.items) |-> institutions.items[i][2]], Truthy)
            ELSE IF IsStr(institutions) THEN <<institutions>>
            ELSE <<>>
        institutions_str == JoinSemicolon(SelectSeq(institution_list, Truthy))
        mapped == [i \in 1..Len(countries) |-> country_to_continent(countries[i])]
        continents == SelectSeq(mapped, Truthy)
    IN IF \E i \in 1..Len(mapped) : mapped[i] = Raised THEN Raised
       ELSE [Conference |-> conference,
             Year |-> year,
             Name |-> member.name,
             Institution |-> IF institutions_str = <<>> THEN None ELSE Str(institutions_str),
             Continent |-> IF continents = <<>> THEN None ELSE Str(JoinSemicolon(continents))]

\* lines 145-178: the row of a committee member, or Raised
member_row(conference, year, member) ==
    LET institutions == member.institutions
        institution_list ==
            IF institutions.kind = "dict"
            THEN [i \in 1..Len(institutions.items) |-> institutions.items[i][1]]
            ELSE <<>>
        countries ==
            IF institutions.kind = "dict"
            THEN { institutions.items[i][2] :
                     i \in { j \in 1..Len(institutions.items) :
                               Truthy(institutions.items[j][2]) } }
            ELSE IF IsStr(institutions) THEN {institutions}
            ELSE {}
        institutions_str == JoinSemicolon(SelectSeq(institution_list, Truthy))
        mapped == { country_to_continent(country) : country \in countries }
        continents == { c \in mapped : Truthy(c) }
    IN IF Raised \in mapped THEN Raised
       ELSE [Conference |-> conference,
             Year |-> year,
             Name |-> member.name,
             Institution |-> IF institutions_str = <<>> THEN None ELSE Str(institutions_str),
             Continent |->
                 IF continents = {} THEN None
                 ELSE Str(JoinSemicolon(SelectSeq(SortedContinents,
                                                  LAMBDA c : c \in continents)))]

\* line 145: the member loop of a year
RECURSIVE member_rows(_, _, _)
member_rows(conference, year, members) ==
    IF members = <<>> THEN List(<<>>)
    ELSE LET row == member_row(conference, year, Head(members))
             rest == member_rows(conference, year, Tail(members))
         IN IF row = Raised \/ rest = Raised THEN Raised
            ELSE List(<<row>> \o rest.items)

\* line 144: the year loop of a committee file
RECURSIVE committee_year_rows(_, _)
committee_year_rows(conference, years) ==
    IF years = <<>> THEN List(<<>>)
    ELSE LET first == member_rows(conference, Head(years).year, Head(years).members)
             rest == committee_year_rows(conference, Tail(years))
         IN IF first = Raised \/ rest = Raised THEN Raised
            ELSE List(first.items \o rest.items)

\* lines 139-178: all_rows after the file loop, or Raised
RECURSIVE committee_file_rows(_)
committee_file_rows(files) ==
    IF files = <<>> THEN List(<<>>)
    ELSE LET rest == committee_file_rows(Tail(files))
             data == load_json(Head(files))
         IN IF rest = Raised \/ data = Raised \/ data.kind # "dict" THEN Raised
            ELSE LET rows == committee_year_rows(Head(files).name, data.years) IN
                 IF rows = Raised THEN Raised ELSE List(rows.items \o rest.items)

\* CSVGenerator.generate_committee_csv
generate_committee_csv(dir, file) ==
    IF dir = Missing THEN [result |-> CSVGenerationResult(0, FALSE), file |-> file]
    ELSE Generated(file, committee_file_rows(dir.files))

\* citation data: {paper: [citation]}, a citation being {"Authors": [author]}
CitationData(lists) == [kind |-> "dict", lists |-> lists]
Citation(as) == [kind |-> "dict", Authors |-> List(as)]
\* the entry of a conference in CitationsCrawlerData: its primary file and
\* its file in IntermediateCitations, Missing when the file does not exist
CitationFiles(name, primary, fallback) ==
    [name |-> name, primary |-> primary, fallback |-> fallback]

\* an institution of a citing record, with the three keys a crawler may
\* have put the country under
CitingInstitution(Country, country, CountryCode) ==
    [kind |-> "dict", Country |-> Country, country |-> country, CountryCode |-> CountryCode]

\* inst.get(key)
InstGet(inst, key) == IF key \in DOMAIN inst /\ inst[key] # Missing THEN inst[key] ELSE None

\* lines 339-341 reading the key "Country" only
country_of_country_key(inst) ==
    IF Truthy(InstGet(inst, "Country")) THEN InstGet(inst, "Country") ELSE None

\* lines 339-341: inst.get("Country") or inst.get("country") or
\* inst.get("CountryCode")
country_of(inst) ==
    IF Truthy(InstGet(inst, "Country")) THEN InstGet(inst, "Country")
    ELSE IF Truthy(InstGet(inst, "country")) THEN InstGet(inst, "country")
    ELSE InstGet(inst, "CountryCode")

\* CSVGenerator._extract_continents_from_citation: the set it returns (as
\* List of its elements in any order), or Raised
extract_continents_from_citation(citation) ==
    LET authors_list == citation.Authors
        countries ==
            UNION { { LET country == country_of(authors_list.items[i].Institutions[j]) IN
                      IF Truthy(country) THEN country ELSE None :
                          j \in { k \in 1..Len(authors_list.items[i].Institutions) :
                                    authors_list.items[i].Institutions[k].kind = "dict" } } :
                    i \in { k \in 1..Len(authors_list.items) :
                              authors_list.items[k].kind = "dict" } }
        mapped == { country_to_continent(country) : country \in countries }
    IN IF authors_list = Missing THEN {List(<<>>)}
       ELSE IF Raised \in mapped THEN {Raised}
       ELSE { List(order) : order \in IterationOrders({ c \in mapped : Truthy(c) }) }

\* lines 282-284: `for continent in continents` in the order the set iterates
\* in
RECURSIVE count_continents(_, _)
count_continents(continent_counts, order) ==
    IF order = <<>> THEN continent_counts
    ELSE count_continents(
             DictSet(continent_counts, Head(order), DictGet(continent_counts, Head(order), 0) + 1),
             Tail(order))

\* lines 276-284: the loop over the first n citations of a citing list; the
\* continent_counts that can come out (as List of its items), or Raised
RECURSIVE count_citations(_, _, _)
count_citations(continent_counts, citing_list, n) ==
    IF n = 0 THEN {List(continent_counts)}
    ELSE UNION {
        IF before = Raised THEN {Raised}
        ELSE IF citing_list[n].kind # "dict" THEN {before}
        ELSE { IF continents = Raised THEN Raised
               ELSE List(count_continents(before.items, continents.items))
               : continents \in extract_continents_from_citation(citing_list[n]) }
        : before \in count_citations(continent_counts, citing_list, n - 1) }

\* lines 272-284: the loop over the first n citing lists of a file
RECURSIVE count_citing_lists(_, _)
count_citing_lists(lists, n) ==
    IF n = 0 THEN {List(<<>>)}
    ELSE UNION {
        IF before = Raised THEN {Raised}
        ELSE IF lists[n] = NotDict THEN {before}
        ELSE count_citations(before.items, lists[n].items, Len(lists[n].items))
        : before \in count_citing_lists(lists, n - 1) }

\* lines 287-292: the rows of a conference
citation_rows(conference, continent_counts) ==
    [i \in 1..Len(continent_counts) |->
        [Conference |-> conference,
         Continent |-> continent_counts[i][1],
         Num_Papers |-> continent_counts[i][2]]]

\* lines 245-292: all_rows after the loop over the first n conferences, or
\* Raised
RECURSIVE citation_file_rows(_, _)
citation_file_rows(entries, n) ==
    IF n = 0 THEN {List(<<>>)}
    ELSE UNION {
        IF before = Raised THEN {Raised}
        ELSE LET citation_file == IF entries[n].primary # Missing THEN entries[n].primary
                                  ELSE entries[n].fallback
             IN IF citation_file = Missing THEN {before}
                ELSE LET data == load_json([content |-> citation_file]) IN
                     IF data = Raised THEN {before}
                     ELSE IF data.kind # "dict" \/ data.lists = <<>> THEN {before}
                     ELSE { IF counts = Raised THEN Raised
                            ELSE List(before.items \o citation_rows(entries[n].name, counts.items))
                            : counts \in count_citing_lists(data.lists, Len(data.lists)) }
        : before \in citation_file_rows(entries, n - 1) }

\* CSVGenerator.generate_citations_csv: the outcomes it can have
generate_citations_csv(dir, file) ==
    IF dir = Missing THEN {[result |-> CSVGenerationResult(0, FALSE), file |-> file]}
    ELSE { Generated(file, all_rows) : all_rows \in citation_file_rows(dir.files, Len(dir.files)) }

(***************************************************************************)
(* The inputs of the CSV generators: the files of ProcessedData (what      *)
(* process_conference saves, or a file that is not valid JSON), of         *)
(* CommitteeData and of CitationsCrawlerData, and step 2 of the pipeline.  *)
(***************************************************************************)
\* what save_json writes for an extended data file
ProcessedContent(extended_data) ==
    Dict((CHOOSE out \in process_conference(extended_data) : TRUE).data)

SampleProcessed ==
    { Unreadable,
      ProcessedContent(Dict(<<Year("2020", <<GooglePaper>>)>>)),
      ProcessedContent(Dict(<<Year("2020", <<EthPaper, NoDataPaper>>),
                              Year("2021", <<GooglePaper>>)>>)) }

Ann == Member(Str(<<"A","n","n">>),
              Affiliations(<< <<Str(<<"M","I","T">>), Str(<<"U","S">>)>>,
                              <<Str(<<"E","T","H">>), Str(<<"C","H">>)>> >>))
Bob == Member(Str(<<"B","o","b">>), Str(<<"F","R">>))
Cy == Member(Str(<<"C","y">>), Affiliations(<< <<Str(<<"U","S","P">>), None>> >>))
Dee == Member(Str(<<"D","e","e">>),
              Affiliations(<< <<Str(<<"M","I","T">>), Str(<<"U","S">>)>>,
                              <<Str(<<"U","B","C">>), Str(<<"C","A">>)>>,
                              <<Str(<<"L","a","b">>), Str(<<"Z","Z">>)>> >>))
Eve == Member(Str(<<"E","v","e">>), Str(<<"Z","Z">>))

SampleCommittees ==
    { Unreadable,
      Dict(<<CommitteeYear("2020", <<Ann, Bob>>)>>),
      Dict(<<CommitteeYear("2021", <<Cy, Dee, Eve>>)>>) }

UsAuthor == Author(<<Institution(Str(<<"M","I","T">>), Str(<<"U","S">>))>>)
\* the country under "country", "Country" being empty
FrAuthor == Author(<<CitingInstitution(Str(<<>>), Str(<<"F","R">>), Missing)>>)
\* the country under all three keys, and under "CountryCode" only
KeysAuthor == Author(<<CitingInstitution(Str(<<"U","S">>), Str(<<"F","R">>), Str(<<"C","N">>)),
                       CitingInstitution(Missing, None, Str(<<"C","A">>))>>)

PrimaryCitations ==
    CitationData(<<List(<<Citation(<<UsAuthor, FrAuthor>>), Citation(<<UsAuthor, KeysAuthor>>)>>)>>)
FallbackCitations == CitationData(<<List(<<Citation(<<FrAuthor>>)>>)>>)

\* the files a conference can have in CitationsCrawlerData
SampleCitationFiles ==
    { files \in [primary : {Missing, Unreadable, PrimaryCitations},
                 fallback : {Missing, FallbackCitations}] :
        files.primary # Missing \/ files.fallback # Missing }

\* the position after the last conference of a directory
NextName(files) == IF files = <<>> THEN 1 ELSE NameIndex(files[Len(files)].name) + 1

\* one more file in ProcessedData
WriteProcessedFile ==
    /\ csv_results = NotCalled
    /\ processed_dir # Missing
    /\ \E i \in NextName(processed_dir.files)..Len(ConferenceNames) :
       \E content \in SampleProcessed :
           processed_dir' = Dir(Append(processed_dir.files, File(ConferenceNames[i], content)))
    /\ UNCHANGED <<extended_dir, all_stats, results, continent_csv,
                   committee_dir, citations_dir, csv_results, csv_files,
                   engineVars, classifierVars, runVars, reportVars>>

\* one more file in CommitteeData
CrawlCommitteeFile ==
    /\ csv_results = NotCalled
    /\ committee_dir # Missing
    /\ \E i \in NextName(committee_dir.files)..2 : \E content \in SampleCommittees :
           committee_dir' = Dir(Append(committee_dir.files, File(ConferenceNames[i], content)))
    /\ UNCHANGED <<batchVars, citations_dir, csv_results, csv_files,
                   engineVars, classifierVars, runVars, reportVars>>

\* the citation files of one more conference
CrawlCitationFiles ==
    /\ csv_results = NotCalled
    /\ citations_dir # Missing
    /\ \E i \in NextName(citations_dir.files)..2 : \E files \in SampleCitationFiles :
           citations_dir' = Dir(Append(citations_dir.files,
                                       CitationFiles(ConferenceNames[i], files.primary,
                                                     files.fallback)))
    /\ UNCHANGED <<batchVars, committee_dir, csv_results, csv_files,
                   engineVars, classifierVars, runVars, reportVars>>

\* CSVGenerator.generate_all_csvs: what it returns and the files it leaves
generate_all_csvs(processed, committee, citations, files) ==
    LET papers_csv == generate_papers_csv(processed, files.papers)
        committee_csv == generate_committee_csv(committee, files.committee)
    IN { [results |-> [kind |-> "dict",
                       papers |-> papers_csv.result,
                       committee |-> committee_csv.result,
                       citations |-> citations_csv.result],
          files |-> [papers |-> papers_csv.file,
                     committee |-> committee_csv.file,
                     citations |-> citations_csv.file]]
         : citations_csv \in generate_citations_csv(citations, files.citations) }

\* step 2 of the pipeline
GenerateAllCsvs ==
    /\ csv_results = NotCalled
    /\ \E out \in generate_all_csvs(processed_dir, committee_dir, citations_dir, csv_files) :
           /\ csv_results' = out.results
           /\ csv_files' = out.files
    /\ UNCHANGED <<batchVars, committee_dir, citations_dir,
                   engineVars, classifierVars, runVars, reportVars>>

\* the CSV files an earlier run of step 2 left in ProcessedData
EarlierCsvFiles ==
    [papers |-> List(<<[Conference |-> Atc, Year |-> "2019", Title |-> Title,
                        PredominantContinent |-> Str(<<"N","A">>)]>>),
     committee |-> List(<<[Conference |-> Atc, Year |-> "2019", Name |-> Ann.name,
                           Institution |-> None, Continent |-> Str(<<"N","A">>)]>>),
     citations |-> List(<<[Conference |-> Atc, Continent |-> Str(<<"N","A">>), Num_Papers |-> 1]>>)]

InitCsv ==
    /\ processed_dir \in {Missing, Dir(<<>>)}
    /\ committee_dir \in {Missing, Dir(<<>>)}
    /\ citations_dir \in {Missing, Dir(<<>>)}
    /\ extended_dir = Missing
    /\ all_stats = NotCalled
    /\ results = NotCalled
    /\ continent_csv = NotCalled
    /\ csv_results = NotCalled
    /\ csv_files \in {NoCsvFiles, EarlierCsvFiles}
    /\ EngineIdle
    /\ ClassifierIdle
    /\ RunIdle
    /\ ReportIdle

NextCsv ==
    \/ WriteProcessedFile
    \/ CrawlCommitteeFile
    \/ CrawlCitationFiles
    \/ GenerateAllCsvs

SpecCsv == InitCsv /\ [][NextCsv]_vars

(***************************************************************************)
(* run_full_analysis.main: the five steps of the pipeline and the exit     *)
(* code of the process.                                                    *)
(***************************************************************************)
Exit(code) == [kind |-> "exit", code |-> code]

\* where main goes after a step: on to another step, or out with a code
Continue(step) == [pc |-> step, exit_code |-> NotCalled]
Return(code) == [pc |-> "exit", exit_code |-> Exit(code)]

\* len(plots_config)
NumPlots == 10

\* lines 82-84: the handler of step 1 returns 1
after_data_processing(raised) ==
    IF raised THEN Return(1) ELSE Continue("step2")

\* lines 102-104: the handler of step 2 returns 1
after_csv_generation(raised) ==
    IF raised THEN Return(1) ELSE Continue("step3")

\* a handler of step 3 that returns 1 as those of steps 1 and 2 do
after_big_tech_analysis_returning(raised) ==
    IF raised THEN Return(1) ELSE Continue("step4")

\* lines 121-123: the handler of step 3 logs a warning and "Continuing
\* pipeline execution"
after_big_tech_analysis(raised) == Continue("step4")

\* save_csv opens the file only when there are rows; the open raises when the
\* file cannot be written
save_csv_raises(rows, writable) == rows # <<>> /\ ~writable

\* setup_project_directories: mkdir with exist_ok of the outputs directories
SetupProjectDirectories ==
    /\ pc = "setup"
    /\ pc' = "step1"
    /\ UNCHANGED <<exit_code, outputs_writable, logged, plot, generated_count, failed_count,
                   batchVars, csvVars, engineVars, classifierVars, reportVars>>

\* step 1: DataReducer.process_all_conferences and generate_summary_report,
\* which divides by total_papers only when it is positive
DataProcessing ==
    /\ pc = "step1"
    /\ \E out \in process_all_conferences(extended_dir) :
           /\ IF out = Raised
              THEN all_stats' = Raised /\ UNCHANGED processed_dir
              ELSE all_stats' = List(out.all_stats) /\ processed_dir' = Dir(out.files)
           /\ pc' = after_data_processing(out = Raised).pc
           /\ exit_code' = after_data_processing(out = Raised).exit_code
           /\ logged' = IF out = Raised THEN logged \cup {"data processing"} ELSE logged
    /\ UNCHANGED <<extended_dir, results, continent_csv, outputs_writable, plot,
                   generated_count, failed_count, csvVars, engineVars, classifierVars, reportVars>>

\* step 2: CSVGenerator.generate_all_csvs, whose generators catch every
\* exception, and the log of the results that report no success
CsvGeneration ==
    /\ pc = "step2"
    /\ \E out \in generate_all_csvs(processed_dir, committee_dir, citations_dir, csv_files) :
           /\ csv_results' = out.results
           /\ csv_files' = out.files
           /\ logged' = logged \cup
                  { csv_type \in {"papers", "committee", "citations"} :
                      ~out.results[csv_type].success }
    /\ pc' = after_csv_generation(FALSE).pc
    /\ exit_code' = after_csv_generation(FALSE).exit_code
    /\ UNCHANGED <<batchVars, committee_dir, citations_dir, outputs_writable, plot,
                   generated_count, failed_count, engineVars, classifierVars, reportVars>>

\* lines 110-119: analyze_all_conferences, generate_csv (which analyzes again
\* and saves the rows), generate_continent_csv and generate_summary_report:
\* the rows of each and whether an exception came out
big_tech_steps(analyzed, by_continent, writable) ==
    LET csv_raised == IF analyzed = Raised THEN TRUE
                      ELSE save_csv_raises(analyzed.items, writable)
        continent_raised == IF by_continent = Raised THEN TRUE
                            ELSE save_csv_raises(by_continent.items, writable)
    IN [results |-> analyzed,
        continent_csv |-> IF csv_raised THEN NotCalled ELSE by_continent,
        raised |-> csv_raised \/ continent_raised]

\* step 3 of the pipeline
BigTechAnalysis ==
    /\ pc = "step3"
    /\ \E out \in { big_tech_steps(analyze_all_conferences(processed_dir),
                                   generate_continent_csv(processed_dir),
                                   outputs_writable) } :
          /\ results' = out.results
          /\ continent_csv' = out.continent_csv
          /\ pc' = after_big_tech_analysis(out.raised).pc
          /\ exit_code' = after_big_tech_analysis(out.raised).exit_code
          /\ logged' = IF out.raised THEN logged \cup {"big tech analysis"} ELSE logged
    /\ UNCHANGED <<extended_dir, processed_dir, all_stats, outputs_writable, plot,
                   generated_count, failed_count, csvVars, engineVars, classifierVars, reportVars>>

\* step 4: the check of the R packages; subprocess.run raises when Rscript
\* is not installed or runs over its timeout
REnvironmentCheck ==
    /\ pc = "step4"
    /\ \E raised \in BOOLEAN :
           logged' = IF raised THEN logged \cup {"r check"} ELSE logged
    /\ pc' = "step5"
    /\ UNCHANGED <<exit_code, outputs_writable, plot, generated_count, failed_count,
                   batchVars, csvVars, engineVars, classifierVars, reportVars>>

\* step 5 with a loop that returns 1 at the first script that fails
GeneratePlotUntilFailure ==
    /\ pc = "step5"
    /\ plot < NumPlots
    /\ plot' = plot + 1
    /\ \E outcome \in {"missing", "returncode 0", "returncode 1", "raised"} :
           IF outcome = "returncode 0"
           THEN /\ generated_count' = generated_count + 1
                /\ UNCHANGED <<failed_count, pc, exit_code>>
           ELSE /\ failed_count' = failed_count + 1
                /\ pc' = Return(1).pc
                /\ exit_code' = Return(1).exit_code
                /\ UNCHANGED generated_count
    /\ UNCHANGED <<outputs_writable, logged,
                   batchVars, csvVars, engineVars, classifierVars, reportVars>>

\* step 5, one script of plots_config: the script is missing, ends with
\* return code 0, ends with another code, or subprocess.run raises
GeneratePlot ==
    /\ pc = "step5"
    /\ plot < NumPlots
    /\ plot' = plot + 1
    /\ \E outcome \in {"missing", "returncode 0", "returncode 1", "raised"} :
           IF outcome = "returncode 0"
           THEN generated_count' = generated_count + 1 /\ UNCHANGED failed_count
           ELSE failed_count' = failed_count + 1 /\ UNCHANGED generated_count
    /\ UNCHANGED <<pc, exit_code, outputs_writable, logged,
                   batchVars, csvVars, engineVars, classifierVars, reportVars>>

\* lines 225-256: the plot counts are logged and main returns 0
PipelineSummary ==
    /\ pc = "step5"
    /\ plot = NumPlots
    /\ logged' = IF failed_count > 0 THEN logged \cup {"plots"} ELSE logged
    /\ pc' = Return(0).pc
    /\ exit_code' = Return(0).exit_code
    /\ UNCHANGED <<outputs_writable, plot, generated_count, failed_count,
                   batchVars, csvVars, engineVars, classifierVars, reportVars>>

\* the directories a run can start from
SampleExtendedDirs ==
    { Missing,
      Dir(<<>>),
      Dir(<<File(Atc, Dict(<<Year("2020", <<GooglePaper, EthPaper>>)>>))>>),
      Dir(<<File(Atc, Unreadable), File(Nsdi, Dict(<<Year("2020", <<GooglePaper>>)>>))>>),
      Dir(<<File(Atc, Unreadable)>>),
      Dir(<<File(Atc, Dict(<<Year("2020", <<RaisingPaper>>)>>))>>) }

SampleCommitteeDirs ==
    { Missing,
      Dir(<<File(Atc, Dict(<<CommitteeYear("2020", <<Ann, Bob>>)>>))>>),
      Dir(<<File(Atc, Unreadable), File(Nsdi, Dict(<<CommitteeYear("2021", <<Cy>>)>>))>>) }

SampleCitationDirs ==
    { Missing,
      Dir(<<CitationFiles(Atc, PrimaryCitations, Missing)>>) }

InitRun ==
    /\ extended_dir \in SampleExtendedDirs
    /\ committee_dir \in SampleCommitteeDirs
    /\ citations_dir \in SampleCitationDirs
    /\ outputs_writable \in BOOLEAN
    /\ processed_dir = Missing
    /\ all_stats = NotCalled
    /\ results = NotCalled
    /\ continent_csv = NotCalled
    /\ csv_results = NotCalled
    /\ csv_files = NoCsvFiles
    /\ pc = "setup"
    /\ exit_code = NotCalled
    /\ logged = {}
    /\ plot = 0
    /\ generated_count = 0
    /\ failed_count = 0
    /\ EngineIdle
    /\ ClassifierIdle
    /\ ReportIdle

NextRun ==
    \/ SetupProjectDirectories
    \/ DataProcessing
    \/ CsvGeneration
    \/ BigTechAnalysis
    \/ REnvironmentCheck
    \/ GeneratePlot
    \/ PipelineSummary

SpecRun == InitRun /\ [][NextRun]_vars

\* main is one sequential program in which every subprocess.run has a
\* timeout (300 s in step 4, 60 s per plot script), so control does not stay
\* at a step for ever: it goes on to another step, to the return, or one
\* script further in plots_config
Advance ==
    /\ pc \in {"setup", "step1", "step2", "step3", "step4", "step5"}
    /\ pc' \in {"step1", "step2", "step3", "step4", "step5", "exit"}
    /\ plot' \in {plot, plot + 1}

SpecRunFair == SpecRun /\ WF_<<pc, plot>>(Advance)

(***************************************************************************)
(* The tokens the mapper is called with: every string over TokenChars up   *)
(* to MaxTokenLen, the country representations below, the continent codes, *)
(* None and a non-string.  No two-letter string over TokenChars other than *)
(* "UK" is a key of a table above.                                         *)
(***************************************************************************)
TokenChars == {"U", "K", "u", "k", " ", ".", "1"}
TokenStrings == UNION { [1..n -> TokenChars] : n \in 0..MaxTokenLen }

CountryTokens ==
    { <<"U","S">>, <<"u","s">>, <<"F","R">>, <<"f","r">>, <<"G","B">>, <<"C","N">>,
      <<"B","R">>, <<"A","U">>, <<"Z","A">>, <<"Z","Z">>,
      <<" ","U","S">>, <<"F","R"," ">>, <<" ","U","K"," ">>, <<" ","u","k">>,
      <<"U","S","A">>, <<"U","A","E">>, <<"U",".","K",".">>, <<"U",".","S",".">>,
      <<"u","s","a">>,
      <<"K","o","r","e","a">>, <<"R","u","s","s","i","a">>,
      <<"V","i","e","t"," ","N","a","m">>, <<"V","i","e","t","n","a","m">>,
      <<"S","o","u","t","h"," ","K","o","r","e","a">>,
      <<"N","o","r","t","h"," ","K","o","r","e","a">>,
      <<"F","r","a","n","c","e">>, <<"F","r","a","n","c","e",".">>,
      <<" ","F","r","a","n","c","e">>,
      <<"C","h","i","n","a",",">>, <<"B","r","a","z","i","l">>,
      <<"A","u","s","t","r","a","l","i","a">>,
      <<"U","n","i","t","e","d"," ","S","t","a","t","e","s">>,
      <<"A","t","l","a","n","t","i","s">> }

ContinentCodes ==
    { <<"N","A">>, <<"E","U">>, <<"A","S">>, <<"S","A">>, <<"O","C">>, <<"A","F">> }
GroupedCodes ==
    { <<"N","A">>, <<"E","U">>, <<"A","S">>,
      <<"O","t","h","e","r","s">>, <<"U","n","k","n","o","w","n">> }

Tokens ==
    {None, NotDict} \cup { Str(s) : s \in TokenStrings \cup CountryTokens \cup ContinentCodes }

(***************************************************************************)
(* Calls of the mapper on one token.                                       *)
(***************************************************************************)
CountryToAlpha2 ==
    /\ alpha2 = NotCalled
    /\ alpha2' = country_to_alpha2(value)
    /\ UNCHANGED <<value, continent, grouped, predominantVars, analyzerVars, pipelineVars>>

CountryToContinent ==
    /\ continent = NotCalled
    /\ continent' = country_to_continent(value)
    /\ UNCHANGED <<value, alpha2, grouped, predominantVars, analyzerVars, pipelineVars>>

GroupContinent ==
    /\ grouped = NotCalled
    /\ grouped' = group_continent(value)
    /\ UNCHANGED <<value, alpha2, continent, predominantVars, analyzerVars, pipelineVars>>

InitMapper ==
    /\ value \in Tokens
    /\ alpha2 = NotCalled
    /\ continent = NotCalled
    /\ grouped = NotCalled
    /\ PredominantIdle
    /\ AnalyzerIdle
    /\ PipelineIdle

NextMapper == CountryToAlpha2 \/ CountryToContinent \/ GroupContinent

SpecMapper == InitMapper /\ [][NextMapper]_vars

(***************************************************************************)
(* Properties of the mapper, checked under SpecMapper.                     *)
(***************************************************************************)
TwoAlpha(v) == IsStr(v) /\ Len(v.chars) = 2 /\ StrIsAlpha(v.chars)
IsFix(v) == IsStr(v) /\ InTable(COUNTRY_CODE_FIXES, v.chars)

\* C6 as stated: every string of exactly two alphabetic characters resolves
\* to itself upper-cased, and resolving the result again changes nothing.
C6_UpperCasedAndIdempotent ==
    (alpha2 # NotCalled /\ TwoAlpha(value)) =>
        /\ alpha2 = Str(StrUpper(value.chars))
        /\ country_to_alpha2(alpha2) = alpha2

\* C6 as amended: a two-letter alphabetic string that is a key of the fixes
\* table ("UK") resolves to the table's code; every other one resolves to
\* itself upper-cased; and resolving the result again changes nothing unless
\* the result is itself a key of the fixes table ("uk" gives "UK", and "UK"
\* gives "GB").
C6_UpperCasedUnlessFix ==
    (alpha2 # NotCalled /\ TwoAlpha(value)) =>
        /\ IsFix(value) => alpha2 = Str(Lookup(COUNTRY_CODE_FIXES, value.chars))
        /\ ~IsFix(value) => alpha2 = Str(StrUpper(value.chars))
        /\ ~IsFix(alpha2) => country_to_alpha2(alpha2) = alpha2

\* a lower-case two-letter string has been resolved to its upper-cased form
C6_Witness ==
    /\ TwoAlpha(value)
    /\ ~IsFix(value)
    /\ alpha2 = Str(StrUpper(value.chars))
    /\ alpha2 # value

\* the resolution steps of C7 applied, in their order, to the characters t
C7_Steps(t) ==
    LET cleaned == StrRemove(StrRemove(t, "."), ",") IN
    IF InTable(COUNTRY_CODE_FIXES, t) THEN Str(Lookup(COUNTRY_CODE_FIXES, t))
    ELSE IF Len(t) = 2 /\ StrIsAlpha(t) THEN Str(StrUpper(t))
    ELSE IF InTable(PC_NAME_TO_ALPHA2, t) THEN Str(Lookup(PC_NAME_TO_ALPHA2, t))
    ELSE IF InTable(PC_NAME_TO_ALPHA2, cleaned)
         THEN Str(Lookup(PC_NAME_TO_ALPHA2, cleaned))
    ELSE None

\* C7 as stated: country_to_alpha2 is the first success of: fixes table,
\* two alphabetic characters upper-cased, name lookup, name lookup without
\* periods and commas; else null.  The steps read the token as given.
C7_StepsOnToken ==
    alpha2 # NotCalled =>
        alpha2 = IF IsStr(value) THEN C7_Steps(value.chars) ELSE None

\* C7 as amended: the same steps in the same order, applied to the token
\* with its surrounding whitespace stripped.
C7_StepsOnStrippedToken ==
    alpha2 # NotCalled =>
        alpha2 = IF IsStr(value) THEN C7_Steps(StrStrip(value.chars)) ELSE None

\* the fixes table has won over the two-letter rule
C7_Witness ==
    /\ value = Str(<<"U","K">>)
    /\ alpha2 = Str(<<"G","B">>)

\* C8: country_to_alpha2 and country_to_continent never raise, and
\* country_to_continent(x) is the alpha2-to-continent lookup of
\* country_to_alpha2(x), null when either stage fails.
C8_NeverRaises ==
    /\ alpha2 # Raised
    /\ continent # Raised
    /\ (alpha2 # NotCalled /\ continent # NotCalled) =>
           continent = IF IsStr(alpha2) /\ InTable(PC_ALPHA2_TO_CONTINENT, alpha2.chars)
                       THEN Str(Lookup(PC_ALPHA2_TO_CONTINENT, alpha2.chars))
                       ELSE None

\* the second stage has failed on a code the first stage returned
C8_Witness ==
    /\ IsStr(alpha2)
    /\ ~InTable(PC_ALPHA2_TO_CONTINENT, alpha2.chars)
    /\ continent = None

\* C9: group_continent keeps NA, EU and AS, maps SA, OC and AF to "Others"
\* and null to "Unknown", and returns one of NA, EU, AS, Others, Unknown.
C9_GroupTotal ==
    grouped # NotCalled =>
        /\ IsStr(grouped) /\ grouped.chars \in GroupedCodes
        /\ value \in {Str(<<"N","A">>), Str(<<"E","U">>), Str(<<"A","S">>)}
               => grouped = value
        /\ value \in {Str(<<"S","A">>), Str(<<"O","C">>), Str(<<"A","F">>)}
               => grouped = Str(<<"O","t","h","e","r","s">>)
        /\ value = None => grouped = Str(<<"U","n","k","n","o","w","n">>)

\* a null code has been grouped
C9_Witness ==
    /\ value = None
    /\ grouped = Str(<<"U","n","k","n","o","w","n">>)

(***************************************************************************)
(* Properties of get_predominant_continent, checked under SpecPredominant. *)
(***************************************************************************)
NA == Str(<<"N","A">>)
EU == Str(<<"E","U">>)
Buckets == { Str(c) : c \in ContinentCodes } \cup {Unknown}
In(country) == Author(<<Institution(Missing, Str(country))>>)

DictAuthors(as) == { i \in 1..Len(as) : as[i].kind = "dict" }
\* the ballots of an author list: one <<author, token>> per unique country
\* token of each author
Ballots(as) ==
    UNION { { <<i, c>> : c \in unique_countries(as[i].Institutions) } : i \in DictAuthors(as) }
\* the number of votes each bucket gets from the ballots of an author list
Votes(as) ==
    LET ballots == Ballots(as) IN
    [b \in Buckets |-> Cardinality({ p \in ballots : country_vote(p[2]).bucket = b })]
MaxVotes(votes) == SetMax({ votes[b] : b \in Buckets })
Range(seq) == { seq[i] : i \in 1..Len(seq) }
Outputs(r) == <<r.continents, r.no_inst, r.unknown>>

\* C1: the returned list holds exactly the buckets whose number of votes is
\* the maximum over all buckets (each once), so it is non-empty as soon as
\* one vote was cast; two authors in "US" give (["NA"], 0, 0); one author in
\* "US" and one in "FR" give the two-element tie of NA and EU.
C1_ExactlyTheMaxima ==
    predominant # NotCalled =>
        /\ LET votes == Votes(authors)
               max == MaxVotes(votes)
           IN /\ Range(predominant.continents) =
                     { b \in Buckets : votes[b] > 0 /\ votes[b] = max }
              /\ max > 0 => predominant.continents # <<>>
        /\ Len(predominant.continents) = Cardinality(Range(predominant.continents))
        /\ authors = <<In(<<"U","S">>), In(<<"U","S">>)>>
               => Outputs(predominant) = <<<<NA>>, 0, 0>>
        /\ authors = <<In(<<"U","S">>), In(<<"F","R">>)>>
               => /\ Range(predominant.continents) = {NA, EU}
                  /\ Len(predominant.continents) = 2

\* a bucket that holds votes, but fewer than another, was left out
C1_Witness ==
    /\ predominant # NotCalled
    /\ LET votes == Votes(authors) IN
       \E b \in Buckets : /\ votes[b] > 0
                          /\ votes[b] < MaxVotes(votes)
                          /\ b \notin Range(predominant.continents)

\* a token that C2 counts as unresolved: null, not a string of exactly two
\* characters, or not a key of the alpha-2 to continent table
C2_Unresolved(country) ==
    \/ country = None
    \/ ~IsStr(country)
    \/ Len(country.chars) # 2
    \/ ~InTable(PC_ALPHA2_TO_CONTINENT, country.chars)
C2_Bucket(country) ==
    IF C2_Unresolved(country) THEN Unknown
    ELSE Str(Lookup(PC_ALPHA2_TO_CONTINENT, country.chars))

\* C2: every unique country token of an author that is null, not exactly two
\* characters long or not resolvable adds 1 to the unresolved count and one
\* vote to "Unknown"; every other one adds one vote to its continent and
\* nothing to the unresolved count.
C2_OneVotePerToken ==
    predominant # NotCalled =>
        LET ballots == Ballots(authors) IN
        /\ \A b \in Buckets :
               DictGet(predominant.continent_count, b, 0) =
                   Cardinality({ p \in ballots : C2_Bucket(p[2]) = b })
        /\ Range(DictKeys(predominant.continent_count)) \subseteq Buckets
        /\ predominant.unknown = Cardinality({ p \in ballots : C2_Unresolved(p[2]) })

\* votes of both kinds were counted: unresolved tokens that pass the length
\* test and ones that do not, and a resolved one
C2_Witness ==
    /\ predominant # NotCalled
    /\ predominant.unknown = 2
    /\ DictGet(predominant.continent_count, Unknown, 0) = 2
    /\ DictGet(predominant.continent_count, NA, 0) = 1
    /\ \E p \in Ballots(authors) : p[2] = Str(<<"u","s">>)

\* the author list with one more institution, of country c, for author i
WithInstitution(as, i, c) ==
    [as EXCEPT ![i].Institutions = Append(@, Institution(Missing, c))]

\* C3: an author votes once per unique country token: one more institution
\* of a country the author already has changes none of the three outputs.
C3_DuplicateCountryChangesNothing ==
    predominant # NotCalled =>
        LET outputs == { Outputs(r) : r \in get_predominant_continent(authors) } IN
        /\ Outputs(predominant) \in outputs
        /\ \A i \in DictAuthors(authors) :
               \A c \in unique_countries(authors[i].Institutions) :
                   { Outputs(r) : r \in get_predominant_continent(
                                            WithInstitution(authors, i, c)) }
                       = outputs

\* an author with two institutions of one country has voted
C3_Witness ==
    /\ predominant # NotCalled
    /\ \E i \in DictAuthors(authors) :
           /\ Len(authors[i].Institutions) = 2
           /\ authors[i].Institutions[1] = authors[i].Institutions[2]
           /\ authors[i].Institutions[1].Country = Str(<<"U","S">>)
    /\ predominant.continents = <<NA>>
    /\ DictGet(predominant.continent_count, NA, 0) = 1

NoInstitution(as) == { i \in DictAuthors(as) : as[i].Institutions = <<>> }

\* C4: when every author is a record with zero institutions (the empty list
\* included) the result is ([], number of authors, 0); for every list the
\* no-institution count is the number of such authors, and they cast no vote.
C4_NoInstitutions ==
    predominant # NotCalled =>
        /\ NoInstitution(authors) = 1..Len(authors)
               => Outputs(predominant) = <<<<>>, Len(authors), 0>>
        /\ predominant.no_inst = Cardinality(NoInstitution(authors))
        /\ \A i \in NoInstitution(authors) : \A p \in Ballots(authors) : p[1] # i

\* two authors without institutions were counted
C4_Witness ==
    /\ Len(authors) = 2
    /\ NoInstitution(authors) = {1, 2}
    /\ predominant # NotCalled
    /\ predominant.no_inst = 2

\* C5: the returned list is determined by the author list: a later run on
\* the same list returns the same continents in the same order.
C5_SameListEveryRun ==
    [][(predominant # NotCalled /\ predominant' # NotCalled /\ authors' = authors)
           => predominant'.continents = predominant.continents]_vars

(***************************************************************************)
(* Properties of the analyzer, checked under SpecAnalyzer.                 *)
(***************************************************************************)
Labels == {"has_big_company", "no_big_company", "all_none"}

\* the label of a paper
LabelOf(paper) == classify_paper(extract_institutions(paper).items)

\* C10: every paper gets exactly one of the three labels: after
\* _analyze_year the three counts add up to total_papers, which is the
\* number of papers; each paper's label is one of the three, and each count
\* is the number of papers with that label.
C10_OneLabelPerPaper ==
    (stats # NotCalled /\ stats # Raised) =>
        /\ stats.has_big_tech + stats.no_big_tech + stats.all_none = stats.total_papers
        /\ stats.total_papers = Len(papers)
        /\ \A i \in 1..Len(papers) : LabelOf(papers[i]) \in Labels
        /\ stats.has_big_tech =
               Cardinality({ i \in 1..Len(papers) : LabelOf(papers[i]) = "has_big_company" })
        /\ stats.no_big_tech =
               Cardinality({ i \in 1..Len(papers) : LabelOf(papers[i]) = "no_big_company" })
        /\ stats.all_none =
               Cardinality({ i \in 1..Len(papers) : LabelOf(papers[i]) = "all_none" })

\* a year with a paper under each label has been analyzed
C10_Witness ==
    /\ stats # NotCalled
    /\ stats # Raised
    /\ stats.has_big_tech = 1
    /\ stats.no_big_tech = 1
    /\ stats.all_none = 1

(***************************************************************************)
(* Properties of classify_paper, checked under SpecClassifier.             *)
(***************************************************************************)
\* a name that the claims call known: neither null nor the empty string
KnownName(name) == name # None /\ name # Str(<<>>)

\* C11: names that are null or the empty string are skipped and are not
\* known names: the empty list and every list made only of such names is
\* classified all_none.
C11_NullAndEmptySkipped ==
    (classified # NotCalled /\ \A i \in 1..Len(name_list) : ~KnownName(name_list[i]))
        => classified.label = "all_none"

\* the maximal runs of word characters of s: <<first, last>> positions
WordStart(s, i) == IsWordChar(s[i]) /\ (i = 1 \/ ~IsWordChar(s[i - 1]))
WordEnd(s, j) == IsWordChar(s[j]) /\ (j = Len(s) \/ ~IsWordChar(s[j + 1]))

\* the name holds the catalog entry as whole words, whatever the case
HoldsCompany(name, company) ==
    \E i \in 1..(Len(name.chars) - Len(company) + 1) :
        LET j == i + Len(company) - 1 IN
        /\ WordStart(name.chars, i)
        /\ WordEnd(name.chars, j)
        /\ StrLower(SubSeq(name.chars, i, j)) = company

MatchesCatalog(name) ==
    name # None /\ \E company \in BIG_TECH_COMPANIES : HoldsCompany(name, company)

\* C12: a list with a known name is has_big_company exactly when one of its
\* names matches the catalog, no_big_company otherwise, wherever the
\* matching name stands in the list.
C12_BigIffSomeNameMatches ==
    (classified # NotCalled /\ \E i \in 1..Len(name_list) : KnownName(name_list[i]))
        => classified.label = IF \E i \in 1..Len(name_list) : MatchesCatalog(name_list[i])
                        THEN "has_big_company" ELSE "no_big_company"

\* a list whose match stands after an unmatched known name was classified
C12_Witness ==
    /\ classified # NotCalled
    /\ classified.label = "has_big_company"
    /\ Len(name_list) = 2
    /\ name_list[1] = Str(<<"M","I","T">>)
    /\ MatchesCatalog(name_list[2])

Ibmresearchlab == Str(<<"I","b","m","r","e","s","e","a","r","c","h","l","a","b"," ",
                        "U","n","i","v","e","r","s","i","t","y">>)
IBMResearch == Str(<<"I","B","M"," ","R","e","s","e","a","r","c","h">>)
IBMComma == Str(<<"I","B","M",",">>)

\* C13: matching is whole-word and case-insensitive: a list of one known
\* name is has_big_company exactly when a catalog entry stands in the name
\* between characters that are not word characters, in any case; so
\* "Ibmresearchlab University" is no_big_company, "IBM Research" and "IBM,"
\* are has_big_company.
C13_WholeWordAnyCase ==
    (classified # NotCalled /\ Len(name_list) = 1 /\ KnownName(name_list[1])) =>
        /\ classified.label = "has_big_company" <=> MatchesCatalog(name_list[1])
        /\ classified.label = classify_paper(<<Str(StrUpper(name_list[1].chars))>>)
        /\ classified.label = classify_paper(<<Str(StrLower(name_list[1].chars))>>)
        /\ name_list[1] = Ibmresearchlab => classified.label = "no_big_company"
        /\ name_list[1] \in {IBMResearch, IBMComma} => classified.label = "has_big_company"

\* the name that holds "ibm" inside a longer word was classified
C13_Witness ==
    /\ classified # NotCalled
    /\ classified.label = "no_big_company"
    /\ name_list = <<Ibmresearchlab>>

(***************************************************************************)
(* Properties of the tables of the big-tech analysis, checked under        *)
(* SpecConference.                                                         *)
(***************************************************************************)
Analyzed == results # NotCalled /\ results # Raised
ByContinent == continent_csv # NotCalled /\ continent_csv # Raised

\* the conference-years of ProcessedData: <<conference, year, papers>>
ConferenceYears ==
    IF processed_dir = Missing THEN {}
    ELSE UNION { { <<processed_dir.files[f].name, y.year, y.papers>> :
                   y \in Range(processed_dir.files[f].content.years) }
                 : f \in { g \in 1..Len(processed_dir.files) :
                           processed_dir.files[g].content.kind = "dict" } }

\* C14: the big-tech table has a row for a (conference, year) only if the
\* conference-year has at least one paper.
C14_RowsOnlyForYearsWithPapers ==
    Analyzed =>
        \A i \in 1..Len(results.items) : \A cy \in ConferenceYears :
            (cy[1] = results.items[i].Conference /\ cy[2] = results.items[i].Year)
                => cy[3] # <<>>

\* the continent a paper is filed under: the first of its predominant
\* continents, when there is one and it is not "Unknown"
ContinentResolved(paper) ==
    /\ paper.PredominantContinent.items # <<>>
    /\ paper.PredominantContinent.items[1] # Unknown

BucketOf(paper) ==
    LET c == paper.PredominantContinent.items[1] IN
    IF c = NA THEN "NA" ELSE IF c = EU THEN "EU" ELSE IF c = Str(<<"A","S">>) THEN "AS"
    ELSE "Other"

ResolvedPapers(ps) == { i \in 1..Len(ps) : ContinentResolved(ps[i]) }

BigTechIn(ps, b) ==
    { i \in ResolvedPapers(ps) : BucketOf(ps[i]) = b /\ LabelOf(ps[i]) = "has_big_company" }

\* C16: every percentage that analyze_by_continent writes for a
\* conference-year is a count over the number of the year's papers with a
\* resolved continent, while the percentages of analyze_all_conferences for
\* the same year are counts over all the papers of the year.
C16_ContinentDenominator ==
    (Analyzed /\ ByContinent) =>
        \A cy \in ConferenceYears :
            /\ \A i \in 1..Len(continent_csv.items) :
                   LET row == continent_csv.items[i] IN
                   (row.Conference = cy[1] /\ row.Year = cy[2]) =>
                       \E b \in Range(ContinentBuckets) :
                           /\ ResolvedPapers(cy[3]) # {}
                           /\ row.level_2 = level_2(b)
                           /\ row.X0 = round2(Percentage(
                                  Cardinality(BigTechIn(cy[3], b)),
                                  Cardinality(ResolvedPapers(cy[3]))))
            /\ \A i \in 1..Len(results.items) :
                   LET row == results.items[i] IN
                   (row.Conference = cy[1] /\ row.Year = cy[2] /\ cy[3] # <<>>) =>
                       row.pct_has_big = round2(Percentage(
                           Cardinality({ k \in 1..Len(cy[3]) :
                                         LabelOf(cy[3][k]) = "has_big_company" }),
                           Len(cy[3])))

\* a year with a big-tech paper filed under a continent and a paper without
\* a continent: 100.00 by continent, 50.00 over the year
C16_Witness ==
    /\ Analyzed
    /\ ByContinent
    /\ \E i \in 1..Len(continent_csv.items) : \E k \in 1..Len(results.items) :
           /\ continent_csv.items[i].Year = results.items[k].Year
           /\ continent_csv.items[i].X0 = 10000
           /\ results.items[k].pct_has_big = 5000

\* the rows of a conference-year in the continent table
RowsOf(conference, year) ==
    { i \in 1..Len(continent_csv.items) :
        /\ continent_csv.items[i].Conference = conference
        /\ continent_csv.items[i].Year = year }

\* C17: the continent table has a row for a (conference, year, bucket)
\* exactly when a paper of the year is filed under the bucket: one row per
\* such bucket, none for the others, none for a year without such a paper.
C17_RowIffContributor ==
    ByContinent =>
        \A cy \in ConferenceYears :
            LET filled == { b \in Range(ContinentBuckets) :
                              \E i \in ResolvedPapers(cy[3]) : BucketOf(cy[3][i]) = b }
            IN /\ { continent_csv.items[i].level_2 : i \in RowsOf(cy[1], cy[2]) }
                      = { level_2(b) : b \in filled }
               /\ Cardinality(RowsOf(cy[1], cy[2])) = Cardinality(filled)

\* a year with papers under two buckets and a year whose only paper has no
\* continent: two rows, both of the first year
C17_Witness ==
    /\ ByContinent
    /\ Len(continent_csv.items) = 2
    /\ \E cy \in ConferenceYears : cy[3] # <<>> /\ RowsOf(cy[1], cy[2]) = {}
    /\ \E cy \in ConferenceYears : Cardinality(RowsOf(cy[1], cy[2])) = 2

(***************************************************************************)
(* The end-to-end scenario, checked under SpecScenario.                    *)
(***************************************************************************)
\* the four papers of the scenario have been crawled and the year analyzed
ScenarioAnalyzed ==
    /\ Analyzed
    /\ Len(extended_dir.files[1].content.years[1].papers) = 4
    /\ Len(results.items) = 1

\* the tied paper of the scenario, as processed
ScenarioTiedPaper ==
    CHOOSE paper \in Range(processed_dir.files[1].content.years[1].papers) :
        Range(paper.PredominantContinent.items) = {NA, Str(<<"A","S">>)}

\* C15: the big-tech row of the scenario shows 25.00, 25.00 and 25.00.
C15_QuartersOnly ==
    ScenarioAnalyzed =>
        /\ results.items[1].pct_has_big = 2500
        /\ results.items[1].pct_no_big = 2500
        /\ results.items[1].pct_all_none = 2500

\* C15 as amended: the tied paper counts toward the total of 4 and is
\* itself classified from its institutions, so the three percentages add
\* up to 100.00: each label has the 25.00 of its scenario paper, and the
\* label of the tied paper has 25.00 more.
C15_TiedPaperIsClassifiedToo ==
    ScenarioAnalyzed =>
        LET row == results.items[1]
            tied == LabelOf(ScenarioTiedPaper)
        IN /\ row.Year = "2020"
           /\ row.pct_has_big + row.pct_no_big + row.pct_all_none = 10000
           /\ row.pct_has_big = IF tied = "has_big_company" THEN 5000 ELSE 2500
           /\ row.pct_no_big = IF tied = "no_big_company" THEN 5000 ELSE 2500
           /\ row.pct_all_none = IF tied = "all_none" THEN 5000 ELSE 2500

\* the scenario with a tied paper of two universities has been analyzed
C15_Witness ==
    /\ ScenarioAnalyzed
    /\ results.items[1].pct_no_big = 5000
    /\ results.items[1].pct_has_big = 2500

(***************************************************************************)
(* Containment of a conference's failure, checked under SpecBatch.         *)
(***************************************************************************)
\* the conferences whose file step 1, the big-tech table or the continent
\* table fails on
FailsProcessing(file) ==
    load_json(file) = Raised \/ Raised \in process_conference(file.content)
FailsAnalysis(file) ==
    load_json(file) = Raised \/ analyze_conference(file.content) = Raised
FailsByContinent(file) ==
    load_json(file) = Raised \/ analyze_by_continent(file.name, file.content) = Raised

\* C18: a conference whose file is missing or whose processing raises
\* fails alone: what process_all_conferences, analyze_all_conferences and
\* generate_continent_csv produce is what they produce for the batch
\* without the failing conferences.
C18_FailureStaysInConference ==
    /\ (all_stats # NotCalled /\ all_stats # Raised) =>
           \E out \in process_all_conferences(
                  Dir(SelectSeq(extended_dir.files, LAMBDA f : ~FailsProcessing(f)))) :
               /\ out.files = processed_dir.files
               /\ out.all_stats = all_stats.items
               /\ \A i \in 1..Len(extended_dir.files) :
                      ~FailsProcessing(extended_dir.files[i]) =>
                          \E k \in 1..Len(out.files) :
                              out.files[k].name = extended_dir.files[i].name
    /\ Analyzed =>
           /\ results = analyze_all_conferences(
                  Dir(SelectSeq(processed_dir.files, LAMBDA f : ~FailsAnalysis(f))))
           /\ \A i \in 1..Len(processed_dir.files) :
                  LET f == processed_dir.files[i] IN
                  (~FailsAnalysis(f) /\ ~is_socc(f.name)) =>
                      Cardinality({ k \in 1..Len(results.items) :
                                    results.items[k].Conference = f.name })
                          = Len(f.content.years)
    /\ ByContinent =>
           continent_csv = generate_continent_csv(
               Dir(SelectSeq(processed_dir.files, LAMBDA f : ~FailsByContinent(f))))

\* a batch with a conference that step 1 fails on, and whose first processed
\* conference cannot be analyzed while the second has its rows in the tables
C18_Witness ==
    /\ Analyzed
    /\ ByContinent
    /\ \E i \in 1..Len(extended_dir.files) : FailsProcessing(extended_dir.files[i])
    /\ Len(processed_dir.files) = 2
    /\ FailsAnalysis(processed_dir.files[1])
    /\ \E k \in 1..Len(results.items) :
           results.items[k].Conference = processed_dir.files[2].name
    /\ continent_csv.items # <<>>

(***************************************************************************)
(* C19: a file that fails to parse is skipped without aborting the files   *)
(* next to it: in each of generate_papers_csv, generate_committee_csv and  *)
(* generate_citations_csv the rows of all the other files are still        *)
(* written and the generation result reports them.                         *)
(***************************************************************************)
Generating == csv_results # NotCalled

Parses(file) == file.content # Unreadable

\* the citation files of the conferences whose file parses
ParsingCitations(entries) ==
    SelectSeq(entries,
              LAMBDA e : (IF e.primary # Missing THEN e.primary ELSE e.fallback) # Unreadable)

C19_UnparseableFileSkipped ==
    Generating =>
        /\ processed_dir # Missing =>
               LET others == generate_papers_csv(
                                 Dir(SelectSeq(processed_dir.files, Parses)), Missing)
               IN /\ csv_results.papers.row_count = others.result.row_count
                  /\ others.result.row_count > 0 => csv_files.papers = others.file
        /\ committee_dir # Missing =>
               LET others == generate_committee_csv(
                                 Dir(SelectSeq(committee_dir.files, Parses)), Missing)
               IN /\ csv_results.committee.row_count = others.result.row_count
                  /\ others.result.row_count > 0 => csv_files.committee = others.file
        /\ citations_dir # Missing =>
               \E others \in generate_citations_csv(
                                 Dir(ParsingCitations(citations_dir.files)), Missing) :
                  /\ csv_results.citations.row_count = others.result.row_count
                  /\ others.result.row_count > 0 => csv_files.citations = others.file

(***************************************************************************)
(* C20: the exit code of the pipeline is 0 on full success and nonzero     *)
(* exactly when the data-processing stage or the big-tech analysis stage   *)
(* fails outright; a failure of CSV generation, of the R check or of a     *)
(* plot is only logged.                                                    *)
(***************************************************************************)
Exited == pc = "exit"

DataProcessingFailed == "data processing" \in logged
BigTechAnalysisFailed == "big tech analysis" \in logged
CsvGenerationFailed == logged \cap {"papers", "committee", "citations"} # {}
PlotsFailed == "r check" \in logged \/ "plots" \in logged

\* every step has run
RanToTheEnd ==
    /\ all_stats # NotCalled
    /\ csv_results # NotCalled
    /\ results # NotCalled
    /\ plot = NumPlots

Resolves(country) == Truthy(country_to_continent(country))

ResolverBucket(country) ==
    IF Resolves(country) THEN country_to_continent(country) ELSE Unknown

C26_VoteAgreesWithResolver ==
    predominant # NotCalled =>
        \A b \in Buckets :
            DictGet(predominant.continent_count, b, 0) =
                Cardinality({ p \in Ballots(authors) : ResolverBucket(p[2]) = b })

(***************************************************************************)
(* C26, amended: a token that is, as written, a code of the library's      *)
(* alpha-2 table votes for the continent code country_to_continent gives   *)
(* it; every other token votes "Unknown", the tokens that                  *)
(* country_to_continent maps to null and also those it resolves through    *)
(* the alias table, upper-casing or stripping.                             *)
(***************************************************************************)
IsLibraryCode(country) ==
    /\ IsStr(country)
    /\ InTable(PC_ALPHA2_TO_CONTINENT, country.chars)

C26_VoteAgreesOnLibraryCodes ==
    predominant # NotCalled =>
        /\ \A p \in Ballots(authors) : IsLibraryCode(p[2]) => Resolves(p[2])
        /\ \A b \in Buckets \ {Unknown} :
               DictGet(predominant.continent_count, b, 0) =
                   Cardinality({ p \in Ballots(authors) :
                                   IsLibraryCode(p[2]) /\ country_to_continent(p[2]) = b })
        /\ DictGet(predominant.continent_count, Unknown, 0) =
               Cardinality({ p \in Ballots(authors) : ~IsLibraryCode(p[2]) })

\* a resolved alias and a resolved two-letter token voted "Unknown" next to
\* a code that voted for its continent
C26_Witness ==
    /\ predominant # NotCalled
    /\ DictGet(predominant.continent_count, Unknown, 0) = 2
    /\ DictGet(predominant.continent_count, NA, 0) = 1
    /\ \E p, q \in Ballots(authors) :
           /\ p[2] = Str(<<"U","S","A">>) /\ Resolves(p[2])
           /\ q[2] = Str(<<"U","K">>) /\ Resolves(q[2])

(***************************************************************************)
(* C30: after get_predominant_continent the returned unresolved count is   *)
(* the number of votes of the bucket "Unknown"; the number of votes is the *)
(* sum, over the authors with institutions, of their distinct Country      *)
(* values; "Unknown" is in the returned list exactly when the unresolved   *)
(* count is the maximum vote count, and process_paper then counts the      *)
(* paper as one with a continent.                                          *)
(***************************************************************************)
RECURSIVE SumCounts(_)
SumCounts(continent_count) ==
    IF continent_count = <<>> THEN 0
    ELSE Head(continent_count)[2] + SumCounts(Tail(continent_count))

C30_UnknownIsABucket ==
    predominant # NotCalled =>
        LET continent_count == predominant.continent_count IN
        /\ predominant.unknown = DictGet(continent_count, Unknown, 0)
        /\ SumCounts(continent_count) = Cardinality(Ballots(authors))
        /\ continent_count = <<>> => predominant.continents = <<>>
        /\ continent_count # <<>> =>
               (Unknown \in Range(predominant.continents)
                    <=> predominant.unknown = SetMax(DictValues(continent_count)))
        /\ authors # <<>> /\ Unknown \in Range(predominant.continents) =>
               \E out \in process_paper(RawPaper(Title, authors), "2020") :
                   /\ out.paper.PredominantContinent = List(predominant.continents)
                   /\ out.stats.papers_with_continent = 1
                   /\ out.stats.unknown_countries = predominant.unknown

\* "Unknown" ties with a continent at the maximum and is returned with it
C30_Witness ==
    /\ predominant # NotCalled
    /\ predominant.unknown = 1
    /\ Len(predominant.continents) = 2
    /\ Unknown \in Range(predominant.continents)
    /\ NA \in Range(predominant.continents)
    /\ Cardinality(Ballots(authors)) = 2

(***************************************************************************)
(* Properties of the continent buckets, checked under SpecBuckets.         *)
(***************************************************************************)
\* the sum of the X0 values (in hundredths) of the rows with indices in S
RECURSIVE SumX0(_)
SumX0(S) ==
    IF S = {} THEN 0
    ELSE LET i == CHOOSE k \in S : TRUE IN continent_csv.items[i].X0 + SumX0(S \ {i})

\* the papers of a year that continent_stats counts under bucket b: those
\* whose list of predominant continents starts with a continent of b
FiledUnder(ps, b) == { i \in ResolvedPapers(ps) : BucketOf(ps[i]) = b }

\* every paper of the year is counted in the bucket of the first element of
\* its list and in no other, not at all when the list is empty or starts
\* with "Unknown"; has_big + no_big never exceeds total
OneBucketPerPaper(cy) ==
    LET continent_stats == count_by_continent(cy[3], Len(cy[3])) IN
    /\ continent_stats # Raised
    /\ \A b \in Range(ContinentBuckets) :
           /\ continent_stats[b].total = Cardinality(FiledUnder(cy[3], b))
           /\ continent_stats[b].has_big = Cardinality(BigTechIn(cy[3], b))
           /\ continent_stats[b].has_big + continent_stats[b].no_big <= continent_stats[b].total
    /\ { continent_csv.items[i].level_2 : i \in RowsOf(cy[1], cy[2]) }
           = { level_2(b) : b \in { c \in Range(ContinentBuckets) : FiledUnder(cy[3], c) # {} } }

\* C28 as stated: each paper is counted in at most one bucket, chosen from
\* the first element of its Predominant Continent list (dropped when the
\* list is empty or starts with "Unknown", NA/EU/AS for these codes, Other
\* for any other code), has_big + no_big <= total in every bucket, and the
\* X0 values of a conference-year sum to at most 100.00.
C28_OneBucketAndSumAtMost100 ==
    ByContinent =>
        \A cy \in ConferenceYears :
            /\ OneBucketPerPaper(cy)
            /\ SumX0(RowsOf(cy[1], cy[2])) <= 10000

\* C28 amended: the same, with the sum taken before rounding: the has_big
\* counts of the buckets sum to at most the number of papers with a
\* resolved continent, and the rounded X0 values of a conference-year sum
\* to at most 100.02.
C28_OneBucketAndCountsAtMostTotal ==
    ByContinent =>
        \A cy \in ConferenceYears :
            LET continent_stats == count_by_continent(cy[3], Len(cy[3])) IN
            /\ OneBucketPerPaper(cy)
            /\ continent_stats["NA"].has_big + continent_stats["EU"].has_big
                   + continent_stats["AS"].has_big + continent_stats["Other"].has_big
                   <= Cardinality(ResolvedPapers(cy[3]))
            /\ SumX0(RowsOf(cy[1], cy[2])) <= 10002

\* a year with a paper dropped for "Unknown" although AS is tied behind it,
\* a paper with the same tie filed under AS, and a paper filed under Other
C28_Witness ==
    /\ ByContinent
    /\ \E cy \in ConferenceYears :
           /\ \E i \in 1..Len(cy[3]) :
                  cy[3][i].PredominantContinent.items = <<Unknown, Str(<<"A","S">>)>>
           /\ \E i \in 1..Len(cy[3]) :
                  cy[3][i].PredominantContinent.items = <<Str(<<"A","S">>), Unknown>>
           /\ { "pct_big_as", "pct_big_other" }
                  \subseteq { continent_csv.items[i].level_2 : i \in RowsOf(cy[1], cy[2]) }
           /\ Cardinality(FiledUnder(cy[3], "AS")) = 1

(***************************************************************************)
(* Schema violations in the input records, checked under SpecBatch.        *)
(***************************************************************************)
\* the papers of a processed file with an author that is not a dict
HasNonDictAuthor(paper) ==
    /\ paper.kind = "dict"
    /\ \E i \in 1..Len(paper.AuthorsAndInstitutions) :
           paper.AuthorsAndInstitutions[i].kind # "dict"

\* the paper without its authors that are not dicts
WithoutNonDictAuthors(paper) ==
    [paper EXCEPT !.AuthorsAndInstitutions = SelectSeq(@, LAMBDA a : a.kind = "dict")]

\* C21: an author that is not a dict never raises: get_predominant_continent
\* and extract_institutions skip it and go on with the other authors of the
\* paper, so the paper is in the processed file of its conference and the
\* conference has its row of every year in the big-tech table.
C21_SchemaViolationSkipped ==
    Analyzed =>
        \A f \in Range(processed_dir.files) :
            (f.content.kind = "dict" /\ ~is_socc(f.name)) =>
                /\ \A y \in Range(f.content.years) : \A paper \in Range(y.papers) :
                       HasNonDictAuthor(paper) =>
                           /\ extract_institutions(paper) # Raised
                           /\ extract_institutions(paper)
                                  = extract_institutions(WithoutNonDictAuthors(paper))
                /\ \A y \in Range(f.content.years) :
                       y.papers # <<>> =>
                           \E k \in 1..Len(results.items) :
                               /\ results.items[k].Conference = f.name
                               /\ results.items[k].Year = y.year

(***************************************************************************)
(* Properties of the committee table, checked under SpecCsv.               *)
(***************************************************************************)
\* generate_committee_csv has run and every file of CommitteeData was read
CommitteeGenerated ==
    /\ csv_results # NotCalled
    /\ csv_results.committee.success

\* the rows the run wrote to unifiedCommitteeData.csv
CommitteeRows ==
    IF csv_results.committee.row_count = 0 THEN <<>> ELSE csv_files.committee.items

\* <<conference, year, member>> for every member of CommitteeData
CommitteeMembers ==
    UNION { UNION { { <<f.name, y.year, m>> : m \in Range(y.members) }
                    : y \in Range(f.content.years) }
            : f \in Range(committee_dir.files) }

\* the countries of a member: the values of the mapping, or the bare string
CountriesOf(member) ==
    IF member.institutions.kind = "dict"
    THEN { item[2] : item \in Range(member.institutions.items) }
    ELSE {member.institutions}

\* s is ";".join of a strictly ascending list of exactly the continents in S
IsSortedJoinOf(s, S) ==
    /\ S \subseteq Range(SortedContinents)
    /\ s = Str(JoinSemicolon(SelectSeq(SortedContinents, LAMBDA c : c \in S)))

\* C22: the committee table has exactly one row per (conference, year,
\* member); for a member given as a mapping, Institution joins the
\* institution names with ";" and Continent joins, sorted and without
\* duplicates, the continents its countries resolve to; for a member given
\* as a bare country string, Institution is empty and Continent is the
\* continent of the string; countries that do not resolve add nothing.
C22_OneRowPerMember ==
    CommitteeGenerated =>
        /\ Len(CommitteeRows) = Cardinality(CommitteeMembers)
        /\ csv_results.committee.row_count = Cardinality(CommitteeMembers)
        /\ \A cym \in CommitteeMembers :
               LET member == cym[3]
                   mine == { i \in 1..Len(CommitteeRows) :
                               /\ CommitteeRows[i].Conference = cym[1]
                               /\ CommitteeRows[i].Year = cym[2]
                               /\ CommitteeRows[i].Name = member.name }
                   resolved == { country_to_continent(c) :
                                   c \in { d \in CountriesOf(member) : Truthy(d) } }
                   continents == { c \in resolved : Truthy(c) }
               IN /\ Cardinality(mine) = 1
                  /\ \A i \in mine :
                       /\ IF member.institutions.kind = "dict" /\ member.institutions.items # <<>>
                          THEN CommitteeRows[i].Institution
                                   = Str(JoinSemicolon([k \in 1..Len(member.institutions.items) |->
                                                           member.institutions.items[k][1]]))
                          ELSE CommitteeRows[i].Institution = None
                       /\ IF continents = {}
                          THEN CommitteeRows[i].Continent = None
                          ELSE IsSortedJoinOf(CommitteeRows[i].Continent, continents)

\* a table with the rows of Ann (two countries, "EU;NA"), Bob (the bare
\* string "FR"), Dee (US and CA give one "NA", "ZZ" gives nothing) and Eve
\* (a bare string that does not resolve)
C22_Witness ==
    /\ CommitteeGenerated
    /\ Len(CommitteeRows) = 5
    /\ \E i \in 1..5 : /\ CommitteeRows[i].Name = Ann.name
                       /\ CommitteeRows[i].Institution = Str(<<"M","I","T",";","E","T","H">>)
                       /\ CommitteeRows[i].Continent = Str(<<"E","U",";","N","A">>)
    /\ \E i \in 1..5 : /\ CommitteeRows[i].Name = Bob.name
                       /\ CommitteeRows[i].Institution = None
                       /\ CommitteeRows[i].Continent = Str(<<"E","U">>)
    /\ \E i \in 1..5 : /\ CommitteeRows[i].Name = Dee.name
                       /\ CommitteeRows[i].Continent = Str(<<"N","A">>)
    /\ \E i \in 1..5 : /\ CommitteeRows[i].Name = Eve.name
                       /\ CommitteeRows[i].Institution = None
                       /\ CommitteeRows[i].Continent = None

(***************************************************************************)
(* The round trip of big_tech_analysis.csv, checked under SpecReport.      *)
(***************************************************************************)
\* main has written the rows of the analysis and tried to load them
Reloaded == results # NotCalled /\ results # Raised

\* C23: load_csv right after save_csv returns as many rows as were passed
\* to save_csv, the empty list included, with the same field values, the
\* percentages compared after rounding to two decimals.
C23_RoundTrip ==
    Reloaded =>
        /\ loaded # Raised
        /\ Len(loaded.items) = Len(results.items)
        /\ \A i \in 1..Len(results.items) :
               /\ loaded.items[i].Conference = results.items[i].Conference
               /\ loaded.items[i].Year = results.items[i].Year
               /\ parse_float(loaded.items[i].pct_has_big.chars) = results.items[i].pct_has_big
               /\ parse_float(loaded.items[i].pct_no_big.chars) = results.items[i].pct_no_big
               /\ parse_float(loaded.items[i].pct_all_none.chars) = results.items[i].pct_all_none

(***************************************************************************)
(* Independence of the conferences, checked under SpecBatch.               *)
(***************************************************************************)
Processed == all_stats # NotCalled /\ all_stats # Raised

\* an outcome of process_all_conferences as a map: the set of
\* <<output file, entry of the stats map>>, one per conference
OutputMap(out) == { <<out.files[i], out.all_stats[i]>> : i \in 1..Len(out.files) }

\* the sequences that hold the elements of seq in another order
Reorderings(seq) ==
    { [i \in 1..Len(seq) |-> seq[order[i]]] :
        order \in { o \in [1..Len(seq) -> 1..Len(seq)] :
                      \A i, j \in 1..Len(seq) : i # j => o[i] # o[j] } }

StepNumber(at) ==
    CASE at = "setup" -> 0
      [] at = "step1" -> 1
      [] at = "step2" -> 2
      [] at = "step3" -> 3
      [] at = "step4" -> 4
      [] at = "step5" -> 5
      [] at = "exit" -> 6

\* a step starts when the one before it has ended; only step 1 and the end
\* of step 5 lead out of main
InOrder ==
    \/ pc' = pc
    \/ StepNumber(pc') = StepNumber(pc) + 1
    \/ pc = "step1" /\ pc' = "exit" /\ all_stats' = Raised

\* C25: the five steps run in the documented order, CSV generation never
\* starts when data processing raised, and whatever fails in step 3, step 4
\* or a plot script, a run that has passed steps 1 and 2 goes on through
\* every plot script to the end of step 5.
C25_StepsInOrderToTheEnd ==
    /\ [][InOrder]_vars
    /\ [](all_stats = Raised => (csv_results = NotCalled /\ pc = "exit"))
    /\ [](pc = "exit" /\ all_stats # Raised => plot = NumPlots)
    /\ (pc = "step3") ~> (pc = "exit" /\ plot = NumPlots /\ generated_count + failed_count = NumPlots)

\* a run that ended after a failed big-tech analysis, a failed R check and
\* failed plot scripts, all ten scripts tried
C25_Witness ==
    /\ pc = "exit"
    /\ {"big tech analysis", "r check", "plots"} \subseteq logged
    /\ plot = NumPlots
    /\ failed_count > 1
    /\ generated_count > 0

(***************************************************************************)
(* Properties of the citations table, checked under SpecCsv.               *)
(***************************************************************************)
CitationsGenerated ==
    /\ csv_results # NotCalled
    /\ csv_results.citations.success

\* the rows the run wrote to unifiedCitationsData.csv
CitationRows ==
    IF csv_results.citations.row_count = 0 THEN <<>> ELSE csv_files.citations.items

\* the citation file generate_citations_csv reads for a conference
ChosenFile(entry) == IF entry.primary # Missing THEN entry.primary ELSE entry.fallback

\* the citing-paper records of a file: <<list, position>> for each
CitingRecords(data) ==
    IF data = Unreadable THEN {}
    ELSE UNION { { <<l, n>> : n \in 1..Len(data.lists[l].items) } : l \in 1..Len(data.lists) }

\* the country of an institution: the first non-empty of its three keys
FirstNonEmpty(inst) ==
    LET present == SelectSeq(<<"Country", "country", "CountryCode">>,
                             LAMBDA k : k \in DOMAIN inst /\ Truthy(inst[k]))
    IN IF present = <<>> THEN None ELSE inst[present[1]]

\* the continents a citing record has an author institution in
CitedFrom(record) ==
    { c \in { country_to_continent(country) :
                country \in { FirstNonEmpty(inst) :
                                inst \in UNION { Range(author.Institutions) :
                                                  author \in Range(record.Authors.items) } }
                              \ {None} } :
        Truthy(c) }

CsvTypes == {"papers", "committee", "citations"}

\* step 2 runs in this step
GeneratesNow == csv_results = NotCalled /\ csv_results' # NotCalled

\* C29: a generator that collects no row leaves the CSV at its output path
\* as it was before the run, absent or with the rows of an earlier run, and
\* still reports success with row_count 0.
C29_EmptyListWritesNothing ==
    [][GeneratesNow =>
          /\ \A t \in CsvTypes :
                 (csv_results'[t].success /\ csv_results'[t].row_count = 0)
                     => csv_files'[t] = csv_files[t]
          /\ (processed_dir # Missing /\ paper_file_rows(processed_dir.files) = List(<<>>))
                 => csv_results'.papers = CSVGenerationResult(0, TRUE)
          /\ (committee_dir # Missing /\ committee_file_rows(committee_dir.files) = List(<<>>))
                 => csv_results'.committee = CSVGenerationResult(0, TRUE)
          /\ (citations_dir # Missing /\ citations_dir.files = <<>>)
                 => csv_results'.citations = CSVGenerationResult(0, TRUE)
      ]_vars

\* a run over empty directories after an earlier run: success with
\* row_count 0, and the three files still hold the rows of the earlier run
C29_Witness ==
    /\ csv_results # NotCalled
    /\ \A t \in CsvTypes :
           /\ csv_results[t] = CSVGenerationResult(0, TRUE)
           /\ csv_files[t] = EarlierCsvFiles[t]

====
